---- MODULE Spec2Model ----
(***************************************************************************)
(* A model of the schema validation-and-build pipeline of pyms/pyamlvus:   *)
(* SchemaBuilder, SchemaValidator, IndexBuilder, FieldValidator,           *)
(* IndexValidator and FunctionValidator with the helpers they call.        *)
(*                                                                         *)
(* Python values are tagged records [t, n, s]: t is the Python type,       *)
(* n the numeric payload and s the string payload.  A key that is absent   *)
(* from a mapping is the value Absent; dict.get(key) turns it into None.   *)
(***************************************************************************)
EXTENDS Integers, Sequences, FiniteSets, TLC

VARIABLES
    doc,          \* the schema document (schema_dict) without its indexes
    indexes,      \* schema_dict["indexes"]: the index definitions (mutable)
    installed,    \* PYMILVUS_VERSION_INFO, the installed engine version
    engine_ok,    \* whether the external engine's constructor/verify() accept
    b_pc,         \* position of the SchemaBuilder in its life cycle
    b_autoindex,  \* SchemaBuilder._autoindex
    b_field_types,\* SchemaBuilder._field_types
    b_fields,     \* the field descriptors built so far by _build_fields
    b_schema,     \* the descriptor returned by build(), NoSchema before
    b_exc,        \* the exception raised by the builder's last operation
    calls,        \* log of the index operations performed on the builder
    registered,   \* the tuples handed to client add_index, in order
    v_out,        \* outcome of SchemaValidator.validate, NotRun before
    e_out,        \* outcome of the validate_schema entry point, NotCalled before
    ver_out       \* outcome of the version helpers of types/compat.py, NotParsed before

vars == <<doc, indexes, installed, engine_ok, b_pc, b_autoindex,
          b_field_types, b_fields, b_schema, b_exc, calls, registered, v_out, e_out, ver_out>>

-----------------------------------------------------------------------------
(* Bounds of the model *)

MaxFields == 2

MaxIndexes == 2

MaxCalls == 2

-----------------------------------------------------------------------------
(* Python values *)

Absent == [t |-> "absent", n |-> 0, s |-> ""]

None == [t |-> "NoneType", n |-> 0, s |-> ""]

PyBool(b) == [t |-> "bool", n |-> IF b THEN 1 ELSE 0, s |-> ""]

PyInt(k) == [t |-> "int", n |-> k, s |-> ""]

PyStr(x) == [t |-> "str", n |-> 0, s |-> x]

\* a positive float, written as its decimal text; n keeps its sign
PyFloat(x) == [t |-> "float", n |-> 1, s |-> x]

\* dict.get(key): an absent key reads as None
Get(v) == IF v.t = "absent" THEN None ELSE v

\* dict.get(key, default)
GetOr(v, default) == IF v.t = "absent" THEN default ELSE v

\* key in dict
Has(v) == v.t # "absent"

\* bool(v)
Truthy(v) ==
    CASE v.t \in {"absent", "NoneType"} -> FALSE
      [] v.t \in {"bool", "int"} -> v.n # 0
      [] v.t = "str" -> v.s # ""
      [] OTHER -> TRUE

\* isinstance(v, bool)
IsBool(v) == v.t = "bool"

\* isinstance(v, int): bool is a subclass of int
IsInt(v) == v.t \in {"int", "bool"}

\* isinstance(v, str)
IsStr(v) == v.t = "str"

\* type(v).__name__
TypeName(v) == v.t

Range(q) == {q[i] : i \in 1..Len(q)}

-----------------------------------------------------------------------------
(* Exceptions and messages.  A message text is the sequence of the pieces  *)
(* the f-string is made of.                                                *)

NoExc == [exc |-> "none", msg |-> <<>>]

Raise(kind, text) == [exc |-> kind, msg |-> text]

SCE(text) == Raise("SchemaConversionError", text)

\* the exceptions derived from MilvusYamlError
MilvusYamlError == {"SchemaConversionError", "UnsupportedTypeError", "SchemaParseError"}

Raised(e) == e.exc # "none"

\* str(n) for the small naturals that occur
NatStr(k) ==
    CASE k = 0 -> "0" [] k = 1 -> "1" [] k = 2 -> "2" [] k = 3 -> "3"
      [] k = 4 -> "4" [] k = 5 -> "5" [] k = 6 -> "6" [] k = 7 -> "7"
      [] k = 8 -> "8" [] k = 9 -> "9" [] OTHER -> "many"

-----------------------------------------------------------------------------
(* Version strings: a string is the sequence of its characters *)

DigitChars == {"0", "1", "2", "3", "4", "5", "6", "7", "8", "9"}

DigitVal(c) ==
    CASE c = "0" -> 0 [] c = "1" -> 1 [] c = "2" -> 2 [] c = "3" -> 3
      [] c = "4" -> 4 [] c = "5" -> 5 [] c = "6" -> 6 [] c = "7" -> 7
      [] c = "8" -> 8 [] c = "9" -> 9

\* re.split(r"[.+-]", version): the components between separators
RECURSIVE SplitAcc(_, _, _)
SplitAcc(chars, cur, acc) ==
    IF chars = <<>> THEN Append(acc, cur)
    ELSE IF Head(chars) \in {".", "+", "-"}
         THEN SplitAcc(Tail(chars), <<>>, Append(acc, cur))
         ELSE SplitAcc(Tail(chars), Append(cur, Head(chars)), acc)

Split(chars) == SplitAcc(chars, <<>>, <<>>)

\* str.isdigit(): non-empty and all digits
IsDigit(comp) == comp # <<>> /\ \A i \in 1..Len(comp) : comp[i] \in DigitChars

RECURSIVE IntOf(_, _)
IntOf(comp, acc) ==
    IF comp = <<>> THEN acc ELSE IntOf(Tail(comp), 10 * acc + DigitVal(Head(comp)))

\* the digits a component starts with
RECURSIVE DigitPrefix(_)
DigitPrefix(comp) ==
    IF comp = <<>> \/ Head(comp) \notin DigitChars THEN <<>>
    ELSE <<Head(comp)>> \o DigitPrefix(Tail(comp))

\* a parse that reads the digits a component starts with and stops after the
\* first component that is not all digits
RECURSIVE LeadingNumeric_prefix(_)
LeadingNumeric_prefix(comps) ==
    IF comps = <<>> THEN <<>>
    ELSE IF IsDigit(Head(comps))
         THEN <<IntOf(Head(comps), 0)>> \o LeadingNumeric_prefix(Tail(comps))
         ELSE IF DigitPrefix(Head(comps)) # <<>>
         THEN <<IntOf(DigitPrefix(Head(comps)), 0)>>
         ELSE <<>>

RECURSIVE LeadingNumeric(_)
LeadingNumeric(comps) ==
    IF comps = <<>> THEN <<>>
    ELSE IF IsDigit(Head(comps))
         THEN <<IntOf(Head(comps), 0)>> \o LeadingNumeric(Tail(comps))
         ELSE <<>>

version_tuple(chars) == LeadingNumeric(Split(chars))

\* tuple comparison a < b (lexicographic, a proper prefix is smaller)
RECURSIVE TupleLess(_, _)
TupleLess(a, b) ==
    IF b = <<>> THEN FALSE
    ELSE IF a = <<>> THEN TRUE
    ELSE IF Head(a) # Head(b) THEN Head(a) < Head(b)
    ELSE TupleLess(Tail(a), Tail(b))

TupleLeq(a, b) == a = b \/ TupleLess(a, b)

\* str.strip() leaves nothing
IsBlank(chars) == \A i \in 1..Len(chars) : chars[i] = " "

-----------------------------------------------------------------------------
(* Version compatibility (types/compat.py) *)

\* the minimum engine version of the gated field types and index types
MinGatedVersion == <<2, 6, 0>>

OPTIONAL_TYPE_MIN_VERSIONS == {"float16_vector", "bfloat16_vector", "int8_vector"}

OPTIONAL_INDEX_MIN_VERSIONS == {"GPU_CAGRA", "GPU_BRUTE_FORCE"}

\* _supports(min_version): PYMILVUS_VERSION_INFO >= min_version
supports(current, min_version) == TupleLeq(min_version, current)

OPTIONAL_TYPE_SUPPORT(current, name) == supports(current, MinGatedVersion)

OPTIONAL_INDEX_SUPPORT(current, name) == supports(current, MinGatedVersion)

RECURSIVE version_str(_)
version_str(tup) ==
    IF tup = <<>> THEN <<>>
    ELSE IF Len(tup) = 1 THEN <<NatStr(tup[1])>>
    ELSE <<NatStr(tup[1]), ".">> \o version_str(Tail(tup))

OPTIONAL_REQUIREMENTS == <<"Requires pymilvus>=">> \o version_str(MinGatedVersion)

\* parse_version: [exc, tup]; ValueError for a non-string or blank string
VerAbsent == [t |-> "absent", chars |-> <<>>]

VerStr(chars) == [t |-> "str", chars |-> chars]

VerInt == [t |-> "int", chars |-> <<>>]

parse_version(v) ==
    IF v.t # "str" \/ IsBlank(v.chars)
    THEN [exc |-> Raise("ValueError", <<"Version string must be a non-empty string">>),
          tup |-> <<>>]
    ELSE [exc |-> NoExc, tup |-> version_tuple(v.chars)]

\* version_matches, version_at_least, version_at_most against the installed
\* version current: [exc, value]
version_matches(current, v) ==
    LET p == parse_version(v) IN [exc |-> p.exc, value |-> ~Raised(p.exc) /\ current = p.tup]

version_at_least(current, v) ==
    LET p == parse_version(v) IN
    [exc |-> p.exc, value |-> ~Raised(p.exc) /\ TupleLeq(p.tup, current)]

version_at_most(current, v) ==
    LET p == parse_version(v) IN
    [exc |-> p.exc, value |-> ~Raised(p.exc) /\ TupleLeq(current, p.tup)]

-----------------------------------------------------------------------------
(* validators/schema.py: ensure_runtime_requirements *)

ReqKeys == {"min_version", "max_version", "version", "require", "exact_version"}

NoRequirements == [shape |-> "absent", unknown |-> {}, keys |-> [k \in ReqKeys |-> VerAbsent]]

\* the nested helper _parse(key): [exc, isNone, tup]
ParseKey(req, key) ==
    LET value == req.keys[key] IN
    IF value.t \in {"absent", "NoneType"}
    THEN [exc |-> NoExc, isNone |-> TRUE, tup |-> <<>>]
    ELSE IF value.t # "str"
    THEN [exc |-> SCE(<<"Schema 'pymilvus.", key, "' must be a version string">>),
          isNone |-> TRUE, tup |-> <<>>]
    ELSE LET p == parse_version(value) IN
         IF Raised(p.exc)
         THEN [exc |-> SCE(<<"Invalid version string for 'pymilvus.", key, "'">>),
               isNone |-> TRUE, tup |-> <<>>]
         ELSE [exc |-> NoExc, isNone |-> FALSE, tup |-> p.tup]

\* a parsed value is truthy when it is a non-empty tuple
ParsedTruthy(p) == ~p.isNone /\ p.tup # <<>>

\* _parse("version") or _parse("require") or _parse("exact_version")
ParseExact(req) ==
    LET a == ParseKey(req, "version") IN
    IF Raised(a.exc) \/ ParsedTruthy(a) THEN a
    ELSE LET b == ParseKey(req, "require") IN
         IF Raised(b.exc) \/ ParsedTruthy(b) THEN b
         ELSE ParseKey(req, "exact_version")

ensure_runtime_requirements(schema, current) ==
    LET req == schema.pymilvus IN
    IF req.shape \in {"absent", "NoneType"} THEN NoExc
    ELSE IF req.shape # "dict"
    THEN SCE(<<"Schema 'pymilvus' section must be a mapping with version bounds.">>)
    ELSE IF req.unknown # {}
    THEN SCE(<<"Schema 'pymilvus' section contains unsupported keys: ">>)
    ELSE
    LET mn == ParseKey(req, "min_version")
        mx == ParseKey(req, "max_version")
        ex == ParseExact(req)
    IN
    IF Raised(mn.exc) THEN mn.exc
    ELSE IF Raised(mx.exc) THEN mx.exc
    ELSE IF Raised(ex.exc) THEN ex.exc
    ELSE IF ~ex.isNone /\ (ParsedTruthy(mn) \/ ParsedTruthy(mx))
    THEN SCE(<<"Schema 'pymilvus' section cannot combine 'version' with min/max bounds.">>)
    ELSE IF ParsedTruthy(mn) /\ ParsedTruthy(mx) /\ TupleLess(mx.tup, mn.tup)
    THEN SCE(<<"Schema 'pymilvus' min_version must be less than or equal to max_version">>)
    ELSE IF ~ex.isNone /\ current # ex.tup
    THEN SCE(<<"Schema requires pymilvus==">> \o version_str(ex.tup))
    ELSE IF ~mn.isNone /\ TupleLess(current, mn.tup)
    THEN SCE(<<"Schema requires pymilvus>=">> \o version_str(mn.tup))
    ELSE IF ~mx.isNone /\ TupleLess(mx.tup, current)
    THEN SCE(<<"Schema requires pymilvus<=">> \o version_str(mx.tup))
    ELSE NoExc

-----------------------------------------------------------------------------
(* validators/schema.py: resolve_autoindex_flag *)

AutoKeys == <<"autoindex", "enable_autoindex", "use_autoindex">>

\* str(value) of the values that occur as autoindex settings
PyRepr(v) ==
    CASE v.t = "str" -> v.s
      [] v.t = "int" -> NatStr(v.n)
      [] v.t = "bool" -> IF v.n = 1 THEN "True" ELSE "False"
      [] OTHER -> "None"

\* the (key, value) candidates: the top-level trio, then the settings trio when
\* settings is a dict
autoindex_candidates(schema) ==
    [i \in 1..3 |-> <<AutoKeys[i], Get(schema.top[AutoKeys[i]])>>]
    \o (IF schema.settings = "dict"
        THEN [i \in 1..3 |-> <<"settings." \o AutoKeys[i], Get(schema.nested[AutoKeys[i]])>>]
        ELSE <<>>)

IsNotNone(c) == c[2].t # "NoneType"

autoindex_found(schema) == SelectSeq(autoindex_candidates(schema), IsNotNone)

RECURSIVE JoinKeys(_)
JoinKeys(found) ==
    IF found = <<>> THEN <<>>
    ELSE IF Len(found) = 1 THEN <<found[1][1]>>
    ELSE <<found[1][1], ", ">> \o JoinKeys(Tail(found))

MultipleAutoindex == "Multiple autoindex settings found: "

\* resolution that takes the first key found instead of rejecting several
autoindex_first_wins(schema) ==
    LET found == autoindex_found(schema) IN
    IF found = <<>> THEN [exc |-> NoExc, value |-> FALSE]
    ELSE [exc |-> NoExc, value |-> IsBool(found[1][2]) /\ found[1][2].n = 1]

\* resolution that coerces the sole value to a boolean instead of checking it
autoindex_coerced(schema) ==
    LET found == autoindex_found(schema) IN
    IF Len(found) > 1
    THEN [exc |-> SCE(<<MultipleAutoindex>> \o JoinKeys(found)
                      \o <<". Please specify only one autoindex setting.">>),
          value |-> FALSE]
    ELSE IF found = <<>> THEN [exc |-> NoExc, value |-> FALSE]
    ELSE [exc |-> NoExc, value |-> Truthy(found[1][2])]

\* [exc, value]: the resolved flag, or the SchemaConversionError raised
resolve_autoindex_flag(schema) ==
    LET found == autoindex_found(schema) IN
    IF Len(found) > 1
    THEN [exc |-> SCE(<<MultipleAutoindex>> \o JoinKeys(found)
                      \o <<". Please specify only one autoindex setting.">>),
          value |-> FALSE]
    ELSE IF found = <<>> THEN [exc |-> NoExc, value |-> FALSE]
    ELSE LET key == found[1][1]
             value == found[1][2]
         IN IF IsBool(value) THEN [exc |-> NoExc, value |-> value.n = 1]
            ELSE [exc |-> SCE(<<"Invalid autoindex value '", PyRepr(value), "' (type: ",
                                TypeName(value), ") for key '", key,
                                "'. Expected boolean value (true or false)">>),
                  value |-> FALSE]

-----------------------------------------------------------------------------
(* types/mappings.py, types/constants.py *)

BaseTypes == {"int8", "int16", "int32", "int64", "bool", "float", "double",
              "varchar", "json", "array", "float_vector", "binary_vector",
              "sparse_float_vector"}

\* the keys of TYPE_MAPPING under the installed version
TYPE_MAPPING(current) ==
    BaseTypes \cup {n \in OPTIONAL_TYPE_MIN_VERSIONS : OPTIONAL_TYPE_SUPPORT(current, n)}

\* value in TYPE_MAPPING, for any hashable value
InTypeMapping(v, current) == IsStr(v) /\ v.s \in TYPE_MAPPING(current)

FLOAT_METRICS == {"L2", "IP", "COSINE"}

BINARY_METRICS == {"HAMMING", "JACCARD", "TANIMOTO"}

REQUIRED_PARAMS(index_type) ==
    CASE index_type \in {"IVF_FLAT", "IVF_SQ8", "IVF_PQ"} -> {"nlist"}
      [] index_type = "HNSW" -> {"M", "efConstruction"}
      [] OTHER -> {}

BASE_GPU_INDEXES == {"GPU_IVF_FLAT", "GPU_IVF_PQ"}

OPTIONAL_GPU_INDEXES(current) ==
    {n \in OPTIONAL_INDEX_MIN_VERSIONS : OPTIONAL_INDEX_SUPPORT(current, n)}

GPU_INDEX_TYPES(current) == BASE_GPU_INDEXES \cup OPTIONAL_GPU_INDEXES(current)

FLOAT_VECTOR_INDEXES(current) ==
    {"FLAT", "IVF_FLAT", "IVF_SQ8", "IVF_PQ", "IVF_RABITQ", "HNSW", "DISKANN",
     "AUTOINDEX", "GPU_IVF_FLAT", "GPU_IVF_PQ"} \cup OPTIONAL_GPU_INDEXES(current)

\* VALID_INDEX_TYPES.get(field_type, set())
VALID_INDEX_TYPES(field_type, current) ==
    CASE field_type = "float_vector" -> FLOAT_VECTOR_INDEXES(current)
      [] field_type = "binary_vector" -> {"BIN_FLAT", "BIN_IVF_FLAT", "MINHASH_LSH"}
      [] field_type = "sparse_float_vector" -> {"SPARSE_INVERTED_INDEX"}
      [] field_type = "varchar" -> {"INVERTED", "BITMAP", "TRIE"}
      [] field_type \in {"int8", "int16", "int32", "int64"} -> {"INVERTED", "STL_SORT"}
      [] field_type \in {"float", "double", "json"} -> {"INVERTED"}
      [] field_type \in {"bool", "array"} -> {"BITMAP", "INVERTED"}
      [] field_type \in {"float16_vector", "bfloat16_vector"}
           /\ OPTIONAL_TYPE_SUPPORT(current, field_type) -> FLOAT_VECTOR_INDEXES(current)
      [] field_type = "int8_vector" /\ OPTIONAL_TYPE_SUPPORT(current, field_type) -> {"HNSW"}
      [] OTHER -> {}

\* RECOMMENDED_INDEX_TYPES.get(field_type): "" when there is none
RECOMMENDED_INDEX_TYPES(field_type, current) ==
    CASE field_type \in {"varchar", "int8", "int16", "int32", "int64", "float",
                         "double", "json"} -> "INVERTED"
      [] field_type \in {"bool", "array"} -> "BITMAP"
      [] field_type = "int8_vector" /\ OPTIONAL_TYPE_SUPPORT(current, field_type) -> "HNSW"
      [] OTHER -> ""

-----------------------------------------------------------------------------
(* validators/field.py, validators/base.py *)

MaxVarcharLength == 65535

MaxFloatDim == 32768

MaxBinaryDim == 262144

MaxArrayCapacity == 4096

\* field names whose characters are not all alphanumeric, underscore or hyphen
NamesWithInvalidChars == {"bad name"}

\* field names that start with an underscore
NamesWithUnderscore == {"_sys"}

\* strings that str.strip() empties
BlankStrings == {"", " "}

\* BaseValidator.validate_string_not_empty: value.strip() needs a str
validate_string_not_empty(value) ==
    IF ~Truthy(value) THEN SCE(<<"Field '", "name", "' cannot be empty">>)
    ELSE IF ~IsStr(value)
    THEN Raise("AttributeError", <<"'", TypeName(value), "' object has no attribute 'strip'">>)
    ELSE IF value.s \in BlankStrings THEN SCE(<<"Field '", "name", "' cannot be empty">>)
    ELSE NoExc

\* BaseValidator.validate_positive_integer
validate_positive_integer(value, what) ==
    IF ~IsInt(value) \/ value.n <= 0
    THEN SCE(<<"Field '", what, "' must be a positive integer">>)
    ELSE NoExc

validate_field_name_format(name) ==
    IF name.s \in NamesWithInvalidChars
    THEN SCE(<<"Field name '", name.s, "' contains invalid characters. ">>)
    ELSE IF name.s \in NamesWithUnderscore
    THEN SCE(<<"Field name '", name.s, "' cannot start with underscore">>)
    ELSE NoExc

validate_field_type(field_type, name, current) ==
    IF ~InTypeMapping(field_type, current)
    THEN Raise("UnsupportedTypeError",
               <<"Unsupported field type '", "Unsupported field type '", PyRepr(field_type),
                 "' for field '", name.s, "'">>)
    ELSE NoExc

\* an integer parameter with a range: required, positive integer, within 1..hi
validate_ranged(value, what, kind, hi) ==
    IF ~Has(value) THEN SCE(<<kind, " missing required '", what, "' parameter">>)
    ELSE IF Raised(validate_positive_integer(value, what))
    THEN validate_positive_integer(value, what)
    ELSE IF ~(1 <= value.n /\ value.n <= hi)
    THEN SCE(<<kind, " ", what, " must be between 1-", "hi">>)
    ELSE NoExc

validate_array_params(field_def, current) ==
    IF ~Has(field_def.element_type)
    THEN SCE(<<"Array field", " missing required '", "element_type", "' parameter">>)
    ELSE IF ~Has(field_def.max_capacity)
    THEN SCE(<<"Array field", " missing required '", "max_capacity", "' parameter">>)
    ELSE IF ~InTypeMapping(field_def.element_type, current)
    THEN Raise("UnsupportedTypeError", <<"Unsupported array element type">>)
    ELSE validate_ranged(field_def.max_capacity, "max_capacity", "Array field",
                         MaxArrayCapacity)

validate_type_specific_params(field_def, field_type, current) ==
    CASE field_type.s = "varchar" ->
           validate_ranged(field_def.max_length, "max_length", "VARCHAR field",
                           MaxVarcharLength)
      [] field_type.s = "float_vector" ->
           validate_ranged(field_def.dim, "dim", "Vector field", MaxFloatDim)
      [] field_type.s = "binary_vector" ->
           validate_ranged(field_def.dim, "dim", "Vector field", MaxBinaryDim)
      [] field_type.s = "array" -> validate_array_params(field_def, current)
      [] OTHER -> NoExc

\* FieldValidator.validate: the exception it raises, NoExc when the field passes
FieldValidator_validate(item, current) ==
    LET name == Get(item.name)
        field_type == Get(item.type)
    IN
    IF name.t = "NoneType" THEN SCE(<<"Field missing required 'name' attribute">>)
    ELSE IF field_type.t = "NoneType"
    THEN SCE(<<"Field '", PyRepr(name), "' missing required 'type' attribute">>)
    ELSE IF Raised(validate_string_not_empty(name)) THEN validate_string_not_empty(name)
    ELSE IF Raised(validate_field_name_format(name)) THEN validate_field_name_format(name)
    ELSE IF Raised(validate_field_type(field_type, name, current))
    THEN validate_field_type(field_type, name, current)
    ELSE IF Raised(validate_type_specific_params(item, field_type, current))
    THEN validate_type_specific_params(item, field_type, current)
    ELSE IF Has(item.nullable) /\ ~IsBool(item.nullable)
    THEN SCE(<<"Field '", name.s, "': 'nullable' must be a boolean value">>)
    ELSE IF Has(item.enable_match) /\ ~IsBool(item.enable_match)
    THEN SCE(<<"Field '", name.s, "': 'enable_match' must be a boolean value">>)
    ELSE NoExc

-----------------------------------------------------------------------------
(* builders/field.py *)

\* the field descriptor (FieldSchema) as far as the pipeline reads it back
FieldSchema(field_def) ==
    [name |-> field_def.name.s,
     dtype |-> field_def.type.s,
     is_primary |-> Truthy(GetOr(field_def.is_primary, PyBool(FALSE)))]

\* FieldBuilder.build_field: [exc, field]; the engine's FieldSchema constructor
\* accepts or rejects the arguments (engine_field_ok)
build_field(field_def, current, engine_field_ok) ==
    LET name == Get(field_def.name)
        type_str == Get(field_def.type)
        none == [name |-> "", dtype |-> "", is_primary |-> FALSE]
    IN
    IF ~Truthy(name)
    THEN [exc |-> SCE(<<"Field missing required 'name' attribute">>), field |-> none]
    ELSE IF ~Truthy(type_str)
    THEN [exc |-> SCE(<<"Field '", PyRepr(name), "' missing required 'type' attribute">>),
          field |-> none]
    ELSE IF ~InTypeMapping(type_str, current)
    THEN [exc |-> Raise("UnsupportedTypeError", <<"Unsupported field type">>), field |-> none]
    ELSE IF type_str.s = "array" /\ Truthy(Get(field_def.element_type))
            /\ ~InTypeMapping(field_def.element_type, current)
    THEN [exc |-> Raise("UnsupportedTypeError", <<"Unsupported array element type">>),
          field |-> none]
    ELSE IF ~engine_field_ok
    THEN [exc |-> SCE(<<"Failed to create FieldSchema for field '", PyRepr(name), "'">>),
          field |-> none]
    ELSE [exc |-> NoExc, field |-> FieldSchema(field_def)]

-----------------------------------------------------------------------------
(* validators/index.py *)

\* str.upper() on the spellings of index types, metrics and function types
Upper(x) ==
    CASE x = "hnsw" -> "HNSW"
      [] x = "autoindex" -> "AUTOINDEX"
      [] x = "inverted" -> "INVERTED"
      [] x = "ivf_flat" -> "IVF_FLAT"
      [] x = "sparse_inverted_index" -> "SPARSE_INVERTED_INDEX"
      [] x \in {"bm25", "Bm25"} -> "BM25"
      [] x = "bm-25" -> "BM-25"
      [] x = "ip" -> "IP"
      [] x = "l2" -> "L2"
      [] x = "gpu_cagra" -> "GPU_CAGRA"
      [] x = "Gpu_Brute_Force" -> "GPU_BRUTE_FORCE"
      [] x = "ivf_sq8" -> "IVF_SQ8"
      [] x = "bitmap" -> "BITMAP"
      [] x = "float_vector" -> "FLOAT_VECTOR"
      [] x = "float16_vector" -> "FLOAT16_VECTOR"
      [] x = "bfloat16_vector" -> "BFLOAT16_VECTOR"
      [] x = "int8_vector" -> "INT8_VECTOR"
      [] x = "binary_vector" -> "BINARY_VECTOR"
      [] x = "sparse_float_vector" -> "SPARSE_FLOAT_VECTOR"
      [] OTHER -> x

\* a mapping value (params): t is "dict" for a mapping, d its items
NoParams == [t |-> "absent", d |-> <<>>]

Dict(items) == [t |-> "dict", d |-> items]

\* sorted() of a set of index parameter names
ParamOrder == <<"M", "bm25_b", "bm25_k1", "efConstruction", "inverted_index_algo", "m", "nlist">>

Sorted(S) == SelectSeq(ParamOrder, LAMBDA x : x \in S)

MaxHnswM == 100

MaxNlist == 65536

\* _validate_index_type looking at the index type before the field type
validate_index_type_index_first(index_type, field_type, field_name, current) ==
    IF Upper(index_type) \in OPTIONAL_INDEX_MIN_VERSIONS
       /\ ~OPTIONAL_INDEX_SUPPORT(current, Upper(index_type))
    THEN SCE(<<"Index type '", index_type, "' requires additional support (">>
             \o OPTIONAL_REQUIREMENTS \o <<"). Current pymilvus version: ">>)
    ELSE IF field_type \in OPTIONAL_TYPE_MIN_VERSIONS
            /\ ~OPTIONAL_TYPE_SUPPORT(current, field_type)
    THEN SCE(<<"Field type '", field_type, "' requires additional support (">>
             \o OPTIONAL_REQUIREMENTS \o <<").">>)
    ELSE IF Upper(index_type) \notin VALID_INDEX_TYPES(field_type, current)
    THEN SCE(<<"Index type '", index_type, "' is not valid for ", field_type, " field '",
               field_name, "'. ">>)
    ELSE NoExc

\* IndexValidator._validate_index_type
validate_index_type(index_type, field_type, field_name, current) ==
    IF field_type \in OPTIONAL_TYPE_MIN_VERSIONS /\ ~OPTIONAL_TYPE_SUPPORT(current, field_type)
    THEN SCE(<<"Field type '", field_type, "' requires additional support (">>
             \o OPTIONAL_REQUIREMENTS \o <<").">>)
    ELSE IF Upper(index_type) \in OPTIONAL_INDEX_MIN_VERSIONS
            /\ ~OPTIONAL_INDEX_SUPPORT(current, Upper(index_type))
    THEN SCE(<<"Index type '", index_type, "' requires additional support (">>
             \o OPTIONAL_REQUIREMENTS \o <<"). Current pymilvus version: ">>)
    ELSE IF Upper(index_type) \notin VALID_INDEX_TYPES(field_type, current)
    THEN SCE(<<"Index type '", index_type, "' is not valid for ", field_type, " field '",
               field_name, "'. ">>)
    ELSE NoExc

\* IndexValidator._validate_metric: metric.upper() needs a str
validate_metric(metric, field_type, field_name, index_type, current) ==
    IF ~IsStr(metric)
    THEN Raise("AttributeError", <<"'", TypeName(metric), "' object has no attribute 'upper'">>)
    ELSE IF index_type # "" /\ index_type \in GPU_INDEX_TYPES(current)
            /\ Upper(metric.s) = "COSINE"
    THEN SCE(<<"Metric 'COSINE' is not supported for GPU index '", index_type, "'">>)
    ELSE IF field_type \in {"float_vector", "float16_vector", "bfloat16_vector", "int8_vector"}
            /\ Upper(metric.s) \notin FLOAT_METRICS
    THEN SCE(<<"Invalid metric '", metric.s, "' for ", field_type, " field '", field_name, "'">>)
    ELSE IF field_type = "binary_vector" /\ Upper(metric.s) \notin BINARY_METRICS
    THEN SCE(<<"Invalid metric '", metric.s, "' for binary_vector field '", field_name, "'">>)
    ELSE IF field_type = "sparse_float_vector" /\ Upper(metric.s) \notin {"BM25", "IP"}
    THEN SCE(<<"Invalid metric '", metric.s, "' for sparse_float_vector field '",
               field_name, "'">>)
    ELSE NoExc

\* IndexValidator._validate_index_param
validate_index_param(param_name, param_value, index_type, field_name) ==
    IF index_type = "HNSW" /\ param_name \in {"M", "efConstruction"}
       /\ (~IsInt(param_value) \/ param_value.n <= 0)
    THEN SCE(<<"HNSW parameter '", param_name, "' for field '", field_name,
               "' must be a positive integer">>)
    ELSE IF index_type = "HNSW" /\ param_name = "M" /\ param_value.n > MaxHnswM
    THEN SCE(<<"HNSW parameter 'M' for field '", field_name, "' is too large">>)
    ELSE IF index_type \in {"IVF_FLAT", "IVF_SQ8", "IVF_PQ"} /\ param_name = "nlist"
            /\ (~IsInt(param_value) \/ param_value.n <= 0)
    THEN SCE(<<"IVF parameter 'nlist' for field '", field_name,
               "' must be a positive integer">>)
    ELSE IF index_type \in {"IVF_FLAT", "IVF_SQ8", "IVF_PQ"} /\ param_name = "nlist"
            /\ param_value.n > MaxNlist
    THEN SCE(<<"IVF parameter 'nlist' for field '", field_name, "' is too large">>)
    ELSE IF index_type = "IVF_PQ" /\ param_name = "m"
            /\ (~IsInt(param_value) \/ param_value.n <= 0)
    THEN SCE(<<"PQ parameter 'm' for field '", field_name, "' must be a positive integer">>)
    ELSE NoExc

\* _validate_index_params checking the parameters that are present before it
\* looks for the missing ones
validate_index_params_ranges_first(params, index_type, field_name) ==
    IF params.t # "dict"
    THEN SCE(<<"Index params for field '", field_name, "' must be a dictionary">>)
    ELSE LET missing == REQUIRED_PARAMS(index_type) \ DOMAIN params.d
             bad == SelectSeq(ParamOrder,
                      LAMBDA k : k \in DOMAIN params.d
                                 /\ Raised(validate_index_param(k, params.d[k], index_type,
                                                                field_name)))
         IN IF bad # <<>>
            THEN validate_index_param(bad[1], params.d[bad[1]], index_type, field_name)
            ELSE IF missing # {}
            THEN SCE(<<"Index '", index_type, "' for field '", field_name,
                       "' missing required parameters: ">> \o Sorted(missing))
            ELSE NoExc

\* IndexValidator._validate_index_params: the first failing parameter raises
validate_index_params_dict(params, index_type, field_name) ==
    IF params.t # "dict"
    THEN SCE(<<"Index params for field '", field_name, "' must be a dictionary">>)
    ELSE LET missing == REQUIRED_PARAMS(index_type) \ DOMAIN params.d
             bad == SelectSeq(ParamOrder,
                      LAMBDA k : k \in DOMAIN params.d
                                 /\ Raised(validate_index_param(k, params.d[k], index_type,
                                                                field_name)))
         IN IF missing # {}
            THEN SCE(<<"Index '", index_type, "' for field '", field_name,
                       "' missing required parameters: ">> \o Sorted(missing))
            ELSE IF bad # <<>>
            THEN validate_index_param(bad[1], params.d[bad[1]], index_type, field_name)
            ELSE NoExc

\* IndexValidator.validate against the field-name -> type map field_types
IndexValidator_validate(item, field_types, current) ==
    IF ~Has(item.field) THEN SCE(<<"Index definition missing required 'field'">>)
    ELSE IF ~(IsStr(item.field) /\ item.field.s \in DOMAIN field_types)
    THEN SCE(<<"Index refers to unknown field '", PyRepr(item.field), "'">>)
    ELSE
    LET field_name == item.field.s
        field_type == field_types[field_name]
        raw_type == Get(item.type)
        index_type == IF Truthy(raw_type) /\ IsStr(raw_type) THEN Upper(raw_type.s) ELSE ""
        type_exc == IF ~Truthy(raw_type) THEN NoExc
                    ELSE IF ~IsStr(raw_type)
                    THEN Raise("AttributeError",
                               <<"'", TypeName(raw_type), "' object has no attribute 'upper'">>)
                    ELSE validate_index_type(index_type, field_type, field_name, current)
        metric_exc == IF Has(item.metric)
                      THEN validate_metric(item.metric, field_type, field_name, index_type,
                                           current)
                      ELSE NoExc
        params == IF Has(item.params) THEN item.params ELSE Dict(<<>>)
    IN
    IF Raised(type_exc) THEN type_exc
    ELSE IF Raised(metric_exc) THEN metric_exc
    ELSE validate_index_params_dict(params, index_type, field_name)

-----------------------------------------------------------------------------
(* builders/schema.py: is_bm25_function_output_field *)

\* a value naming fields: a string (names has one element) or a list of strings
NoNames == [t |-> "absent", names |-> <<>>]

OneName(x) == [t |-> "str", names |-> <<x>>]

NameList(q) == [t |-> "list", names |-> q]

\* bool(value) of such a value
NamesTruthy(v) ==
    CASE v.t \in {"absent", "NoneType"} -> FALSE
      [] v.t = "str" -> v.names # <<"">>
      [] v.t = "list" -> v.names # <<>>
      [] OTHER -> TRUE

\* the list a truthy value stands for: [value] for a string, value for a list
NamesOf(v) == IF v.t \in {"str", "list"} THEN v.names ELSE <<>>

\* func_def.get("type") or func_def.get("function_type", "").upper()
builder_func_type(func_def) ==
    IF Truthy(Get(func_def.type)) THEN Get(func_def.type)
    ELSE PyStr(Upper(GetOr(func_def.function_type, PyStr("")).s))

\* the first truthy of output_field, output_field_names, output_fields
builder_output_fields(func_def) ==
    IF NamesTruthy(func_def.output_field) THEN NamesOf(func_def.output_field)
    ELSE IF NamesTruthy(func_def.output_field_names) THEN NamesOf(func_def.output_field_names)
    ELSE IF NamesTruthy(func_def.output_fields) THEN NamesOf(func_def.output_fields)
    ELSE <<>>

is_bm25_function_output_field(functions, field_name) ==
    \E i \in 1..Len(functions) :
        /\ builder_func_type(functions[i]) = PyStr("BM25")
        /\ field_name \in Range(builder_output_fields(functions[i]))

-----------------------------------------------------------------------------
(* builders/index.py *)

\* IndexBuilder.validate_index_params
validate_index_params(index_def, field_types, current) ==
    IndexValidator_validate(index_def, field_types, current)

NoResult == [index_type |-> "", metric_type |-> Absent, params |-> NoParams]

\* f with key k set to v
DictSet(f, k, v) == [x \in DOMAIN f \cup {k} |-> IF x = k THEN v ELSE f[x]]

\* f with key k set to v unless k is present
SetDefault(f, k, v) == IF k \in DOMAIN f THEN f ELSE DictSet(f, k, v)

\* the index type get_index_params settles on: the given one, or the resolved one
resolve_index_type(index_def, is_bm25, autoindex) ==
    IF Truthy(Get(index_def.type)) THEN Get(index_def.type).s
    ELSE IF is_bm25 THEN "SPARSE_INVERTED_INDEX"
    ELSE IF autoindex THEN "AUTOINDEX"
    ELSE ""

\* the index definition as get_index_params leaves it: a resolved type and a
\* defaulted metric are written into the caller's mapping
resolved_index_def(index_def, is_bm25, autoindex) ==
    IF Truthy(Get(index_def.type)) THEN index_def
    ELSE IF is_bm25
    THEN [index_def EXCEPT !.type = PyStr("SPARSE_INVERTED_INDEX"),
                           !.metric = IF Has(index_def.metric) THEN index_def.metric
                                      ELSE PyStr("BM25")]
    ELSE IF autoindex THEN [index_def EXCEPT !.type = PyStr("AUTOINDEX")]
    ELSE index_def

\* the params mapping with the SPARSE_INVERTED_INDEX defaults filled in
index_params_with_defaults(d, index_type, is_bm25) ==
    IF index_type # "SPARSE_INVERTED_INDEX" THEN d
    ELSE LET a == SetDefault(d, "inverted_index_algo", PyStr("DAAT_MAXSCORE")) IN
         IF is_bm25
         THEN SetDefault(SetDefault(a, "bm25_k1", PyFloat("1.2")), "bm25_b", PyFloat("0.75"))
         ELSE a

\* IndexBuilder.get_index_params: [exc, result, def] where def is the index
\* definition after the call
get_index_params(index_def, functions, field_types, autoindex, current) ==
    LET v == validate_index_params(index_def, field_types, current)
        field_name == Get(index_def.field)
        is_bm25 == is_bm25_function_output_field(functions, field_name.s)
        index_type == resolve_index_type(index_def, is_bm25, autoindex)
        def1 == resolved_index_def(index_def, is_bm25, autoindex)
        metric == Get(def1.metric)
        metric_type == IF Truthy(metric) THEN metric
                       ELSE IF is_bm25 /\ index_type = "SPARSE_INVERTED_INDEX"
                       THEN PyStr("BM25")
                       ELSE Absent
        given == Get(def1.params)
        \* index_def.get("params") or {}: a non-empty mapping is used as it is
        d0 == IF given.t = "dict" /\ DOMAIN given.d # {} THEN given.d ELSE <<>>
        d1 == index_params_with_defaults(d0, index_type, is_bm25)
        \* defaults are written into the caller's own non-empty params mapping
        def2 == IF given.t = "dict" /\ DOMAIN given.d # {}
                THEN [def1 EXCEPT !.params = Dict(d1)] ELSE def1
    IN
    IF Raised(v) THEN [exc |-> v, result |-> NoResult, def |-> index_def]
    ELSE IF ~Truthy(field_name)
    THEN [exc |-> SCE(<<"Index definition missing required 'field'">>),
          result |-> NoResult, def |-> index_def]
    ELSE IF index_type = ""
    THEN [exc |-> SCE(<<"Index for field '", field_name.s, "' missing required 'type'. ",
                        "Either specify an index type or enable autoindex in your schema.">>),
          result |-> NoResult, def |-> index_def]
    ELSE [exc |-> NoExc,
          result |-> [index_type |-> index_type,
                      metric_type |-> metric_type,
                      params |-> IF DOMAIN d1 # {} THEN Dict(d1) ELSE NoParams],
          def |-> def2]

-----------------------------------------------------------------------------
(* validators/function.py *)

InputKeys == <<"input_field_names", "input_fields", "fields", "input_field", "field">>

\* "".join(ch for ch in str(func_type) if ch.isalnum()).upper()
NormalizeToken(x) ==
    CASE x \in {"BM25", "bm25", "Bm25", "bm-25", "BM-25"} -> "BM25"
      [] x \in {"TEXT_EMBEDDING", "text_embedding", "TextEmbedding"} -> "TEXTEMBEDDING"
      [] x \in {"RERANK", "rerank"} -> "RERANK"
      [] OTHER -> x

SupportedAliases == {"BM25", "TEXTEMBEDDING", "TEXTEMBED", "TEXTEMBEDDINGS", "RERANK", "RANKER"}

\* FunctionValidator.__init__: {f["name"]: f["type"] for f in field_definitions}
\* raises KeyError for a definition without the key
FunctionValidator_init(field_definitions) ==
    LET lacking == {i \in 1..Len(field_definitions) :
                      ~Has(field_definitions[i].name) \/ ~Has(field_definitions[i].type)}
        first == CHOOSE i \in lacking : \A j \in lacking : i <= j
    IN IF lacking = {} THEN NoExc
       ELSE IF ~Has(field_definitions[first].name) THEN Raise("KeyError", <<"name">>)
       ELSE Raise("KeyError", <<"type">>)

\* self.field_types.get(field_name): the type of the last definition of that
\* name among all raw definitions, None when there is none
RECURSIVE raw_field_type(_, _)
raw_field_type(field_definitions, field_name) ==
    IF field_definitions = <<>> THEN None
    ELSE LET last == field_definitions[Len(field_definitions)] IN
         IF last.name = PyStr(field_name) THEN last.type
         ELSE raw_field_type(SubSeq(field_definitions, 1, Len(field_definitions) - 1),
                             field_name)

\* defs_by_name.get(fname) or {}: the last definition of that name
RECURSIVE raw_field_def(_, _)
raw_field_def(field_definitions, field_name) ==
    IF field_definitions = <<>> THEN [enable_analyzer |-> Absent]
    ELSE LET last == field_definitions[Len(field_definitions)] IN
         IF Get(last.name) = PyStr(field_name) THEN last
         ELSE raw_field_def(SubSeq(field_definitions, 1, Len(field_definitions) - 1),
                            field_name)

\* the value of the first input key present in the definition
RECURSIVE first_input(_, _)
first_input(func_def, keys) ==
    IF keys = <<>> THEN NoNames
    ELSE IF func_def.inputs[Head(keys)].t # "absent" THEN func_def.inputs[Head(keys)]
    ELSE first_input(func_def, Tail(keys))

validate_function_type(func_type) ==
    IF NormalizeToken(PyRepr(func_type)) \notin SupportedAliases
    THEN SCE(<<"Unsupported function type '", PyRepr(func_type), "'. ">>)
    ELSE NoExc

validate_input_fields(func_def, field_names, field_definitions) ==
    LET input_fields == first_input(func_def, InputKeys)
        names == input_fields.names
        missing == SelectSeq(names, LAMBDA x : x \notin field_names)
        wrong == SelectSeq(names,
                   LAMBDA x : x \notin field_names
                              \/ raw_field_type(field_definitions, x)
                                   \notin {PyStr("varchar"), PyStr("json")})
    IN
    IF input_fields.t \in {"absent", "NoneType"}
    THEN SCE(<<"Function definition missing input field specification. ">>)
    ELSE IF input_fields.t \notin {"str", "list"}
    THEN SCE(<<"Input fields must be a string or list">>)
    ELSE IF wrong = <<>> THEN NoExc
    ELSE IF wrong[1] \notin field_names
    THEN SCE(<<"Function input field '", wrong[1], "' does not exist in schema">>)
    ELSE SCE(<<"Function input field '", wrong[1], "' has incompatible type">>)

\* the value _validate_output_field reads: output_field_names, else output_field
validator_output_value(func_def) ==
    IF Has(func_def.output_field_names) THEN func_def.output_field_names
    ELSE IF Has(func_def.output_field) THEN func_def.output_field
    ELSE NoNames

validate_output_field(func_def, field_names) ==
    LET output_field == validator_output_value(func_def)
        missing == SelectSeq(output_field.names, LAMBDA x : x \notin field_names)
    IN
    IF output_field.t \in {"absent", "NoneType"}
    THEN SCE(<<"Function definition missing output field specification. ">>)
    ELSE IF output_field.t = "list" /\ output_field.names = <<>>
    THEN SCE(<<"Function output field list cannot be empty">>)
    ELSE IF output_field.t \notin {"str", "list"}
    THEN SCE(<<"Function output field must be a string or list">>)
    ELSE IF missing # <<>>
    THEN SCE(<<"Function output field '", missing[1], "' must be an existing field">>)
    ELSE NoExc

validate_text_embedding_params(func_def) ==
    IF ~Has(func_def.params)
    THEN SCE(<<"TEXT_EMBEDDING function missing required 'params' section">>)
    ELSE IF func_def.params.t # "dict"
    THEN SCE(<<"TEXT_EMBEDDING function 'params' must be a dictionary">>)
    ELSE IF "model" \notin DOMAIN func_def.params.d
    THEN SCE(<<"TEXT_EMBEDDING function missing required 'model' parameter">>)
    ELSE IF ~IsStr(func_def.params.d["model"]) \/ func_def.params.d["model"].s \in BlankStrings
    THEN SCE(<<"TEXT_EMBEDDING function 'model' must be a non-empty string">>)
    ELSE NoExc

Bm25ParamOrder == <<"b", "k1", "other">>

validate_bm25_param(param_name, param_value) ==
    IF param_name \notin {"k1", "b"}
    THEN SCE(<<"BM25 function has invalid parameter '", param_name, "'. ">>)
    ELSE IF param_value.t \notin {"int", "bool", "float"}
    THEN SCE(<<"BM25 parameter '", param_name, "' must be a number">>)
    ELSE IF param_value.n <= 0
    THEN SCE(<<"BM25 parameter '", param_name, "' must be positive">>)
    ELSE NoExc

validate_bm25_params(func_def, field_definitions) ==
    LET input_fields == first_input(func_def, InputKeys)
        names == NamesOf(input_fields)
        no_analyzer == SelectSeq(names,
            LAMBDA x : ~Truthy(GetOr(raw_field_def(field_definitions, x).enable_analyzer,
                                     PyBool(FALSE))))
        params == func_def.params
        bad == SelectSeq(Bm25ParamOrder,
                  LAMBDA k : k \in DOMAIN params.d
                             /\ Raised(validate_bm25_param(k, params.d[k])))
    IN
    IF ~NamesTruthy(input_fields)
    THEN SCE(<<"BM25 function missing input field specification; ">>)
    ELSE IF no_analyzer # <<>>
    THEN SCE(<<"BM25 function input field '", no_analyzer[1], "' requires enable_analyzer: true">>)
    ELSE IF ~Has(params) THEN NoExc
    ELSE IF params.t # "dict" THEN SCE(<<"BM25 function 'params' must be a dictionary">>)
    ELSE IF bad # <<>> THEN validate_bm25_param(bad[1], params.d[bad[1]])
    ELSE NoExc

validate_function_params(func_def, func_type, field_definitions) ==
    LET norm == NormalizeToken(PyRepr(func_type)) IN
    IF norm \in {"TEXTEMBEDDING", "TEXTEMBED", "TEXTEMBEDDINGS"}
    THEN validate_text_embedding_params(func_def)
    ELSE IF norm = "BM25" THEN validate_bm25_params(func_def, field_definitions)
    ELSE NoExc

\* FunctionValidator.validate
FunctionValidator_validate(item, field_names, field_definitions) ==
    IF ~Has(item.type) THEN SCE(<<"Function definition missing required 'type'">>)
    ELSE IF Raised(validate_function_type(item.type)) THEN validate_function_type(item.type)
    ELSE IF Raised(validate_input_fields(item, field_names, field_definitions))
    THEN validate_input_fields(item, field_names, field_definitions)
    ELSE IF Raised(validate_output_field(item, field_names))
    THEN validate_output_field(item, field_names)
    ELSE validate_function_params(item, item.type, field_definitions)

\* a validation message (validators/result.py)
Msg(severity, text) == [severity |-> severity, text |-> text]

\* output_field_names or output_field, as validate_function_index_relationships reads it
relationship_output_value(func_def) ==
    IF NamesTruthy(func_def.output_field_names) THEN func_def.output_field_names
    ELSE func_def.output_field

\* str.upper() of .get("type", "")
UpperOfType(v) == Upper(GetOr(v, PyStr("")).s)

\* the messages for one output field of one function
relationship_messages_for(func_type, field_name, idxs) ==
    LET on_field == SelectSeq(idxs, LAMBDA idx : Get(idx.field) = PyStr(field_name))
        wrong == SelectSeq(on_field,
                   LAMBDA idx : func_type = "BM25"
                                /\ UpperOfType(idx.type) # "SPARSE_INVERTED_INDEX")
    IN
    (IF on_field # <<>> THEN <<>>
     ELSE IF func_type = "BM25"
     THEN <<Msg("WARNING", <<"BM25 function output field '", field_name, "' has no index. ",
                             "BM25 functions require SPARSE_INVERTED_INDEX for optimal performance.">>)>>
     ELSE <<Msg("WARNING", <<"Function output field '", field_name, "' has no index. ",
                             "Consider adding an appropriate index for query performance.">>)>>)
    \o [i \in 1..Len(wrong) |->
          Msg("ERROR", <<"BM25 function output field '", field_name, "' ",
                         "uses '{index_type}' index. ",
                         "BM25 functions require SPARSE_INVERTED_INDEX.">>)]

RECURSIVE relationship_messages_fields(_, _, _)
relationship_messages_fields(func_type, names, idxs) ==
    IF names = <<>> THEN <<>>
    ELSE relationship_messages_for(func_type, Head(names), idxs)
         \o relationship_messages_fields(func_type, Tail(names), idxs)

\* FunctionValidator.validate_function_index_relationships
RECURSIVE validate_function_index_relationships(_, _)
validate_function_index_relationships(functions, idxs) ==
    IF functions = <<>> THEN <<>>
    ELSE LET func == Head(functions)
             output_field == relationship_output_value(func)
         IN (IF output_field.t \in {"str", "list"}
             THEN relationship_messages_fields(UpperOfType(func.type), output_field.names, idxs)
             ELSE <<>>)
            \o validate_function_index_relationships(Tail(functions), idxs)

\* the AttributeError of validate_function_index_relationships: .upper() on the
\* type of a function, or of an index on one of its output fields, that is
\* present and no string
validate_function_index_relationships_error(functions, idxs) ==
    IF \E i \in 1..Len(functions) :
          \/ Has(functions[i].type) /\ ~IsStr(functions[i].type)
          \/ /\ relationship_output_value(functions[i]).t \in {"str", "list"}
             /\ \E j \in 1..Len(idxs) :
                   /\ Get(idxs[j].field).t = "str"
                   /\ Get(idxs[j].field).s
                         \in Range(relationship_output_value(functions[i]).names)
                   /\ Has(idxs[j].type) /\ ~IsStr(idxs[j].type)
    THEN Raise("AttributeError", <<"object has no attribute 'upper'">>)
    ELSE NoExc

-----------------------------------------------------------------------------
(* validators/index.py: get_index_warnings *)

VectorTypes == {"float_vector", "float16_vector", "bfloat16_vector", "int8_vector",
                "binary_vector", "sparse_float_vector"}

\* the sequences that enumerate a set once each: the orders in which a set of
\* field names can be iterated
Orderings(S) ==
    {q \in [1..Cardinality(S) -> S] : \A i, j \in 1..Cardinality(S) : q[i] = q[j] => i = j}

\* the AttributeError of index_def.get("type", "").upper() in get_index_warnings:
\* raised at the first definition with a field whose type is present and no
\* string, NoExc when every such type is a string or absent
RECURSIVE get_index_warnings_error(_)
get_index_warnings_error(idxs) ==
    IF idxs = <<>> THEN NoExc
    ELSE IF Truthy(Get(Head(idxs).field)) /\ ~IsStr(GetOr(Head(idxs).type, PyStr("")))
    THEN Raise("AttributeError",
               <<"'", TypeName(Head(idxs).type), "' object has no attribute 'upper'">>)
    ELSE get_index_warnings_error(Tail(idxs))

\* IndexValidator.get_index_warnings; order is the iteration order of the set
\* all_field_names.  The messages carry their severity, as the callers in
\* validators/schema.py and builders/index.py read them.  The value is the list
\* returned when get_index_warnings_error finds nothing to raise.
get_index_warnings(order, idxs, field_types, current) ==
    LET indexed_fields == {idxs[i].field.s : i \in {j \in 1..Len(idxs) : Truthy(Get(idxs[j].field))}}
        unindexed == SelectSeq(order,
            LAMBDA x : x \in DOMAIN field_types /\ field_types[x] \in VectorTypes
                       /\ x \notin indexed_fields)
        type_of(idx) == IF idx.field.s \in DOMAIN field_types
                        THEN field_types[idx.field.s] ELSE ""
        suboptimal == SelectSeq(idxs,
            LAMBDA idx : /\ Truthy(Get(idx.field))
                         /\ type_of(idx) # ""
                         /\ UpperOfType(idx.type) # ""
                         /\ RECOMMENDED_INDEX_TYPES(type_of(idx), current) # ""
                         /\ UpperOfType(idx.type) # RECOMMENDED_INDEX_TYPES(type_of(idx), current))
    IN
    [i \in 1..Len(unindexed) |->
        Msg("WARNING", <<Upper(field_types[unindexed[i]]), " field '", unindexed[i],
                         "' has no index defined. ">>)]
    \o [i \in 1..Len(suboptimal) |->
        Msg("INFO", <<"Field '", suboptimal[i].field.s, "' uses '",
                      UpperOfType(suboptimal[i].type), "' index. ">>)]

-----------------------------------------------------------------------------
(* validators/schema.py: SchemaValidator.validate *)

\* the fields loop: [exc, errors, field_types, fields] after the definitions in
\* raw; a FieldValidator exception that is no MilvusYamlError ends the loop
RECURSIVE validate_fields(_, _, _)
validate_fields(raw, acc, current) ==
    IF raw = <<>> \/ Raised(acc.exc) THEN acc
    ELSE LET field_def == Head(raw)
             e == FieldValidator_validate(field_def, current)
             name == Get(field_def.name)
             field_type == Get(field_def.type)
         IN
         IF Raised(e) /\ e.exc \in MilvusYamlError
         THEN validate_fields(Tail(raw), [acc EXCEPT !.errors = Append(@, Msg("ERROR", e.msg))],
                              current)
         ELSE IF Raised(e) THEN [acc EXCEPT !.exc = e]
         ELSE validate_fields(Tail(raw),
                  [acc EXCEPT !.field_types =
                                  IF IsStr(name) /\ IsStr(field_type)
                                  THEN DictSet(@, name.s, field_type.s) ELSE @,
                              !.fields = Append(@, field_def)],
                  current)

NoLoop == [exc |-> NoExc, errors |-> <<>>]

\* the indexes loop: [exc, errors]
RECURSIVE validate_indexes(_, _, _, _)
validate_indexes(items, acc, field_types, current) ==
    IF items = <<>> \/ Raised(acc.exc) THEN acc
    ELSE LET e == IndexValidator_validate(Head(items), field_types, current) IN
         IF Raised(e) /\ e.exc \in MilvusYamlError
         THEN validate_indexes(Tail(items),
                  [acc EXCEPT !.errors = Append(@, Msg("ERROR", e.msg))], field_types, current)
         ELSE IF Raised(e) THEN [acc EXCEPT !.exc = e]
         ELSE validate_indexes(Tail(items), acc, field_types, current)

\* the functions loop: [exc, errors]
RECURSIVE validate_functions(_, _, _, _)
validate_functions(items, acc, field_names, field_definitions) ==
    IF items = <<>> \/ Raised(acc.exc) THEN acc
    ELSE LET e == FunctionValidator_validate(Head(items), field_names, field_definitions) IN
         IF Raised(e) /\ e.exc \in MilvusYamlError
         THEN validate_functions(Tail(items),
                  [acc EXCEPT !.errors = Append(@, Msg("ERROR", e.msg))],
                  field_names, field_definitions)
         ELSE IF Raised(e) THEN [acc EXCEPT !.exc = e]
         ELSE validate_functions(Tail(items), acc, field_names, field_definitions)

\* SchemaValidator.validate: [status, exc, messages, field_types, fields];
\* status is "returned" with the result and the context, or "raised"
SchemaValidator_validate(schema, idxs, current, order) ==
    LET e1 == ensure_runtime_requirements(schema, current)
        m1 == IF Raised(e1) THEN <<Msg("ERROR", e1.msg)>> ELSE <<>>
        e2 == resolve_autoindex_flag(schema).exc
        m2 == IF Raised(e2) THEN <<Msg("ERROR", e2.msg)>> ELSE <<>>
        f == validate_fields(schema.fields,
                 [exc |-> NoExc, errors |-> <<>>, field_types |-> <<>>, fields |-> <<>>],
                 current)
        ix == validate_indexes(idxs, NoLoop, f.field_types, current)
        we == get_index_warnings_error(idxs)
        w == get_index_warnings(order, idxs, f.field_types, current)
        fi == FunctionValidator_init(schema.fields)
        fn == validate_functions(schema.functions, NoLoop, DOMAIN f.field_types, schema.fields)
        rel == validate_function_index_relationships(schema.functions, idxs)
        re == validate_function_index_relationships_error(schema.functions, idxs)
        raised(e, msgs) == [status |-> "raised", exc |-> e, messages |-> msgs,
                            field_types |-> <<>>, fields |-> <<>>]
    IN
    IF Raised(f.exc) THEN raised(f.exc, m1 \o m2 \o f.errors)
    ELSE IF Raised(ix.exc) THEN raised(ix.exc, m1 \o m2 \o f.errors \o ix.errors)
    ELSE IF Raised(we) THEN raised(we, m1 \o m2 \o f.errors \o ix.errors)
    ELSE IF Raised(fi) THEN raised(fi, m1 \o m2 \o f.errors \o ix.errors \o w)
    ELSE IF Raised(fn.exc)
    THEN raised(fn.exc, m1 \o m2 \o f.errors \o ix.errors \o w \o fn.errors)
    ELSE IF Raised(re)
    THEN raised(re, m1 \o m2 \o f.errors \o ix.errors \o w \o fn.errors)
    ELSE [status |-> "returned", exc |-> NoExc,
          messages |-> m1 \o m2 \o f.errors \o ix.errors \o w \o fn.errors \o rel,
          field_types |-> f.field_types, fields |-> f.fields]

-----------------------------------------------------------------------------
(* builders/schema.py: SchemaBuilder *)

\* __init__ without a context: the name -> type map of the raw definitions
RECURSIVE builder_field_types(_, _)
builder_field_types(raw, acc) ==
    IF raw = <<>> THEN acc
    ELSE LET name == Get(Head(raw).name)
             t == Get(Head(raw).type)
         IN builder_field_types(Tail(raw),
                IF IsStr(name) /\ IsStr(t) THEN DictSet(acc, name.s, t.s) ELSE acc)

\* SchemaBuilder.__init__: [exc, autoindex, field_types]
SchemaBuilder_init(schema, current) ==
    LET e1 == ensure_runtime_requirements(schema, current)
        r == resolve_autoindex_flag(schema)
    IN [exc |-> IF Raised(e1) THEN e1 ELSE r.exc,
        autoindex |-> ~Raised(e1) /\ ~Raised(r.exc) /\ r.value,
        field_types |-> builder_field_types(schema.fields, <<>>)]

\* _build_fields without its check of the primary-field count
primary_count_unchecked(primary_field_count) == NoExc

\* _build_fields reporting every wrong count with the count-free message
primary_count_unnamed(primary_field_count) ==
    IF primary_field_count = 1 THEN NoExc
    ELSE SCE(<<"Schema must have exactly one primary field">>)

\* the error _build_fields raises for the number of primary fields
primary_count_error(primary_field_count) ==
    IF primary_field_count = 0
    THEN SCE(<<"Schema must have exactly one primary field">>)
    ELSE IF primary_field_count > 1
    THEN SCE(<<"Schema has ", NatStr(primary_field_count), " primary fields, must have exactly ",
               "one">>)
    ELSE NoExc

\* is field_def.get("is_primary", False) truthy
IsPrimaryFlagged(field_def) == Truthy(GetOr(field_def.is_primary, PyBool(FALSE)))

\* the loop of _build_fields: [exc, fields, primary_field_count]
RECURSIVE build_fields_loop(_, _, _, _)
build_fields_loop(raw, acc, current, engine_field_ok) ==
    IF raw = <<>> THEN acc
    ELSE LET field_def == Head(raw)
             e == FieldValidator_validate(field_def, current)
             b == build_field(field_def, current, engine_field_ok)
         IN
         IF Raised(e) THEN [acc EXCEPT !.exc = e]
         ELSE IF Raised(b.exc) THEN [acc EXCEPT !.exc = b.exc]
         ELSE build_fields_loop(Tail(raw),
                  [acc EXCEPT !.fields = Append(@, b.field),
                              !.primary_field_count =
                                  IF IsPrimaryFlagged(field_def) THEN @ + 1 ELSE @],
                  current, engine_field_ok)

\* SchemaBuilder._build_fields: [exc, fields, primary_field_count]
build_fields(schema, current, engine_field_ok) ==
    LET r == build_fields_loop(schema.fields,
                 [exc |-> NoExc, fields |-> <<>>, primary_field_count |-> 0],
                 current, engine_field_ok)
    IN IF Raised(r.exc) THEN r
       ELSE [r EXCEPT !.exc = primary_count_error(r.primary_field_count)]

\* build()'s except clauses: UnsupportedTypeError and SchemaConversionError pass,
\* every other exception is wrapped
build_wrap(e) ==
    IF ~Raised(e) \/ e.exc \in {"UnsupportedTypeError", "SchemaConversionError"} THEN e
    ELSE SCE(<<"Failed to build CollectionSchema: ">> \o e.msg)

\* the first index definition validate_index_params rejects, NoExc when none
RECURSIVE validate_all_indexes(_, _, _)
validate_all_indexes(idxs, field_types, current) ==
    IF idxs = <<>> THEN NoExc
    ELSE LET e == validate_index_params(Head(idxs), field_types, current) IN
         IF Raised(e) THEN e ELSE validate_all_indexes(Tail(idxs), field_types, current)

NoSchema == [present |-> FALSE, fields |-> <<>>]

CollectionSchema(fields) == [present |-> TRUE, fields |-> fields]

\* SchemaBuilder.build() as one call: [exc, schema]; engine is what the schema
\* library does with the fields, the assembled schema and verify()
SchemaBuilder_build(schema, idxs, field_types, current, engine) ==
    LET f == build_fields(schema, current, engine # "field_rejected")
        e == IF Raised(f.exc) THEN f.exc
             ELSE IF engine = "schema_rejected"
             THEN Raise("Exception", <<"CollectionSchema rejected">>)
             ELSE IF engine = "verify_rejected"
             THEN SCE(<<"Schema validation failed: ", "verify rejected">>)
             ELSE validate_all_indexes(idxs, field_types, current)
    IN [exc |-> build_wrap(e),
        schema |-> IF Raised(e) THEN NoSchema ELSE CollectionSchema(f.fields)]

-----------------------------------------------------------------------------
(* builders/index.py: the operations over the declared indexes *)

\* the loop of get_create_index_calls and get_milvus_index_params over the
\* declared definitions from position i: [exc, out, defs]; every call of
\* get_index_params leaves its definition as it rewrote it
RECURSIVE index_loop(_, _, _, _, _, _)
index_loop(i, acc, functions, field_types, autoindex, current) ==
    IF i > Len(acc.defs) \/ Raised(acc.exc) THEN acc
    ELSE LET index_def == acc.defs[i]
             r == get_index_params(index_def, functions, field_types, autoindex, current)
         IN
         IF Raised(r.exc) THEN [acc EXCEPT !.exc = r.exc]
         ELSE index_loop(i + 1,
                  [acc EXCEPT !.defs[i] = r.def,
                              !.out = Append(@, [field_name |-> r.def.field.s,
                                                 index_type |-> r.result.index_type,
                                                 metric_type |-> r.result.metric_type,
                                                 params |-> r.result.params])],
                  functions, field_types, autoindex, current)

\* IndexBuilder.get_create_index_calls: the field check comes before the call
RECURSIVE create_index_loop(_, _, _, _, _, _)
create_index_loop(i, acc, functions, field_types, autoindex, current) ==
    IF i > Len(acc.defs) \/ Raised(acc.exc) THEN acc
    ELSE LET index_def == acc.defs[i]
             r == get_index_params(index_def, functions, field_types, autoindex, current)
         IN
         IF ~Truthy(Get(index_def.field))
         THEN [acc EXCEPT !.exc = SCE(<<"Index definition missing required 'field'">>)]
         ELSE IF Raised(r.exc) THEN [acc EXCEPT !.exc = r.exc]
         ELSE create_index_loop(i + 1,
                  [acc EXCEPT !.defs[i] = r.def,
                              !.out = Append(@, [field_name |-> r.def.field.s,
                                                 index_type |-> r.result.index_type,
                                                 metric_type |-> r.result.metric_type,
                                                 params |-> r.result.params])],
                  functions, field_types, autoindex, current)

get_create_index_calls(idxs, functions, field_types, autoindex, current) ==
    create_index_loop(1, [exc |-> NoExc, out |-> <<>>, defs |-> idxs],
                      functions, field_types, autoindex, current)

get_milvus_index_params(idxs, functions, field_types, autoindex, current) ==
    index_loop(1, [exc |-> NoExc, out |-> <<>>, defs |-> idxs],
               functions, field_types, autoindex, current)

\* the tuple get_index_params yields for a definition, as add_index receives it
IndexTuple(index_def, result) ==
    [field_name |-> index_def.field.s, index_type |-> result.index_type,
     metric_type |-> result.metric_type, params |-> result.params]

-----------------------------------------------------------------------------
(* parser.py, builders/function.py, builders/index.py and __init__.py: the
   validate_schema entry point *)

\* what the file at file_path is: readable with a well-formed document, or not
FileStates == {"ok", "not_found", "malformed", "no_name"}

\* SchemaLoader(file_path) and the accesses name, fields, settings, indexes,
\* functions: the SchemaParseError of the first that fails
SchemaLoader_error(schema) ==
    IF schema.file = "not_found"
    THEN Raise("SchemaParseError", <<"Schema file not found: ", "file_path">>)
    ELSE IF schema.file = "malformed"
    THEN Raise("SchemaParseError", <<"YAML parsing failed: ", "problem">>)
    ELSE IF schema.file = "no_name"
    THEN Raise("SchemaParseError", <<"Schema missing required 'name' field">>)
    ELSE IF schema.fields = <<>>
    THEN Raise("SchemaParseError", <<"Schema must have at least one field">>)
    ELSE NoExc

\* ValidationMessage.as_prefixed
as_prefixed(message) == <<message.severity, ": ">> \o message.text

\* FunctionBuilder.validate_function over builder.functions: the first exception
RECURSIVE validate_function_loop(_, _, _)
validate_function_loop(items, field_names, field_definitions) ==
    IF items = <<>> THEN NoExc
    ELSE LET i == FunctionValidator_init(field_definitions)
             e == IF Raised(i) THEN i
                  ELSE FunctionValidator_validate(Head(items), field_names,
                                                  field_definitions)
         IN IF Raised(e) THEN e
            ELSE validate_function_loop(Tail(items), field_names, field_definitions)

\* IndexBuilder.get_index_warnings: [exc, out], the messages as prefixed strings
builder_get_index_warnings(order, idxs, field_types, current) ==
    LET e == get_index_warnings_error(idxs)
        messages == get_index_warnings(order, idxs, field_types, current)
    IN [exc |-> e,
        out |-> IF Raised(e) THEN <<>>
                ELSE [i \in 1..Len(messages) |-> as_prefixed(messages[i])]]

\* the copy of an index definition get_function_index_warnings hands on
adjusted_index(idx, functions, autoindex) ==
    LET field_name == Get(idx.field)
        given == Get(idx.type)
        idx_type == IF Truthy(given) THEN Upper(given.s) ELSE ""
    IN IF ~(Truthy(field_name) /\ idx_type = "") THEN idx
       ELSE IF is_bm25_function_output_field(functions, field_name.s)
       THEN [idx EXCEPT !.type = PyStr("SPARSE_INVERTED_INDEX"),
                        !.metric = IF Has(idx.metric) THEN idx.metric ELSE PyStr("BM25")]
       ELSE IF autoindex THEN [idx EXCEPT !.type = PyStr("AUTOINDEX")]
       ELSE idx

\* FunctionBuilder.get_function_index_warnings: [exc, out]
get_function_index_warnings(schema, idxs, autoindex) ==
    LET i == FunctionValidator_init(schema.fields)
        adjusted_indexes == [k \in 1..Len(idxs) |->
                                adjusted_index(idxs[k], schema.functions, autoindex)]
        messages == validate_function_index_relationships(schema.functions,
                                                          adjusted_indexes)
        e == IF Raised(i) THEN i
             ELSE validate_function_index_relationships_error(schema.functions,
                                                              adjusted_indexes)
    IN [exc |-> e,
        out |-> IF Raised(e) THEN <<>>
                ELSE [k \in 1..Len(messages) |-> as_prefixed(messages[k])]]

\* the handler of validate_schema that lets only the package's own errors through
except_MilvusYamlError(e) == e.exc \in MilvusYamlError

\* validate_schema's handler "except Exception": does it catch e
except_Exception(e) == TRUE

\* where the try block of validate_schema stops, given what its statements did:
\* l the loader, b the builder's constructor, s build(), f the function loop,
\* w the index warnings, r the function-index warnings; [exc, warnings]
validate_schema_stop(l, b, s, f, w, r) ==
    LET e == IF Raised(l) THEN l
             ELSE IF Raised(b.exc) THEN b.exc
             ELSE IF Raised(s.exc) THEN s.exc
             ELSE IF Raised(f) THEN f
             ELSE IF Raised(w.exc) THEN w.exc
             ELSE r.exc
        \* warnings is assigned once the index warnings are there, then extended
        before_w == Raised(l) \/ Raised(b.exc) \/ Raised(s.exc) \/ Raised(f)
                    \/ Raised(w.exc)
    IN [exc |-> e,
        warnings |-> IF before_w THEN <<>>
                     ELSE IF Raised(r.exc) THEN w.out
                     ELSE w.out \o r.out]

\* the statements of the try block that use the builder b
validate_schema_with(schema, idxs, current, engine, order, b) ==
    validate_schema_stop(
        SchemaLoader_error(schema),
        b,
        SchemaBuilder_build(schema, idxs, b.field_types, current, engine),
        validate_function_loop(schema.functions, DOMAIN b.field_types, schema.fields),
        builder_get_index_warnings(order, idxs, b.field_types, current),
        get_function_index_warnings(schema, idxs, b.autoindex))

\* the try block of validate_schema: [exc, warnings]
validate_schema_try(schema, idxs, current, engine, order) ==
    validate_schema_with(schema, idxs, current, engine, order,
                         SchemaBuilder_init(schema, current))

\* the except clause and the return of validate_schema, t what the try block did
validate_schema_return(t) ==
    IF Raised(t.exc) /\ ~except_Exception(t.exc)
    THEN [status |-> "raised", exc |-> t.exc, out |-> <<>>]
    ELSE [status |-> "returned", exc |-> NoExc,
          out |-> (IF Raised(t.exc) THEN <<t.exc.msg>> ELSE <<>>) \o t.warnings]

\* validate_schema(file_path): [status, exc, out]; out is errors + warnings
validate_schema(schema, idxs, current, engine, order) ==
    validate_schema_return(validate_schema_try(schema, idxs, current, engine, order))

-----------------------------------------------------------------------------
(* Documents the model explores *)

Field(name, type) ==
    [name |-> name, type |-> type, is_primary |-> Absent, max_length |-> Absent,
     dim |-> Absent, nullable |-> Absent, enable_match |-> Absent,
     enable_analyzer |-> Absent, element_type |-> Absent, max_capacity |-> Absent]

F_id == [Field(PyStr("id"), PyStr("int64")) EXCEPT !.is_primary = PyBool(TRUE)]

F_id2 == [Field(PyStr("id2"), PyStr("int64")) EXCEPT !.is_primary = PyBool(TRUE)]

F_txt == [Field(PyStr("txt"), PyStr("varchar")) EXCEPT !.max_length = PyInt(256),
                                                      !.enable_analyzer = PyBool(TRUE)]

F_vec == [Field(PyStr("vec"), PyStr("float_vector")) EXCEPT !.dim = PyInt(128)]

F_sp == Field(PyStr("sp"), PyStr("sparse_float_vector"))

\* a varchar field without its max_length
F_title == Field(PyStr("title"), PyStr("varchar"))

F_unknown == Field(PyStr("x"), PyStr("unknown_type"))

F_noname == Field(Absent, PyStr("int64"))

F_notype == Field(PyStr("nt"), Absent)

F_intname == Field(PyInt(7), PyStr("int64"))

Index(field, type) == [field |-> field, type |-> type, metric |-> Absent, params |-> NoParams]

I_id == Index(PyStr("id"), Absent)

I_id_inverted == Index(PyStr("id"), PyStr("INVERTED"))

I_vec == Index(PyStr("vec"), Absent)

I_vec_hnsw ==
    [Index(PyStr("vec"), PyStr("HNSW")) EXCEPT
        !.metric = PyStr("L2"),
        !.params = Dict([k \in {"M", "efConstruction"} |->
                            IF k = "M" THEN PyInt(16) ELSE PyInt(200)])]

\* an IVF_FLAT index without its required nlist
I_vec_ivf == [Index(PyStr("vec"), PyStr("IVF_FLAT")) EXCEPT !.metric = PyStr("L2")]

I_sp == Index(PyStr("sp"), Absent)

I_sp_ip == [Index(PyStr("sp"), Absent) EXCEPT !.metric = PyStr("IP")]

I_sp_k1 ==
    [Index(PyStr("sp"), Absent) EXCEPT !.params = Dict([k \in {"bm25_k1"} |-> PyFloat("2.0")])]

I_ghost == Index(PyStr("ghost"), PyStr("INVERTED"))

I_title == Index(PyStr("title"), PyStr("INVERTED"))

Function(type, input, output) ==
    [type |-> type, function_type |-> Absent,
     inputs |-> [k \in Range(InputKeys) |->
                    IF k = "input_field_names" THEN NameList(<<input>>) ELSE NoNames],
     output_field |-> NoNames, output_field_names |-> NameList(<<output>>),
     output_fields |-> NoNames, params |-> NoParams]

Fn_bm25 == Function(PyStr("BM25"), "txt", "sp")

Fn_bm25_lower == Function(PyStr("bm25"), "txt", "sp")

\* a BM25 function whose output names no declared field
Fn_bm25_ghost == Function(PyStr("BM25"), "txt", "ghost")

NoAutoindex == [k \in Range(AutoKeys) |-> Absent]

Document(fields, functions) ==
    [fields |-> fields, functions |-> functions, top |-> NoAutoindex,
     nested |-> NoAutoindex, settings |-> "absent", pymilvus |-> NoRequirements,
     file |-> "ok"]

\* a pymilvus section asking for at least version v
MinVersion(v) == [shape |-> "dict", unknown |-> {},
                  keys |-> [k \in ReqKeys |-> IF k = "min_version" THEN VerStr(v)
                                               ELSE VerAbsent]]

V_2_5_0 == <<"2", ".", "5", ".", "0">>

V_9_0_0 == <<"9", ".", "0", ".", "0">>

\* the sequences over S of length lo..hi
SeqsOf(S, lo, hi) == UNION {[1..n -> S] : n \in lo..hi}

InstalledVersions == {<<2, 5, 0>>, <<2, 6, 0>>}

EngineOutcomes == {"ok", "field_rejected", "schema_rejected", "verify_rejected"}

NotRun == [status |-> "notrun", exc |-> NoExc, messages |-> <<>>,
           field_types |-> <<>>, fields |-> <<>>]

NotParsed == [status |-> "notparsed"]

NotCalled == [status |-> "notcalled", exc |-> NoExc, out |-> <<>>]

\* the state before any operation, for a document, its indexes and the engine
Start(d, idxs, version, engine) ==
    /\ doc = d
    /\ indexes = idxs
    /\ installed = version
    /\ engine_ok = engine
    /\ b_pc = "none"
    /\ b_autoindex = FALSE
    /\ b_field_types = <<>>
    /\ b_fields = <<>>
    /\ b_schema = NoSchema
    /\ b_exc = NoExc
    /\ calls = <<>>
    /\ registered = <<>>
    /\ v_out = NotRun
    /\ e_out = NotCalled
    /\ ver_out = NotParsed

-----------------------------------------------------------------------------
(* Operations *)

\* SchemaBuilder(schema_dict)
Construct ==
    /\ b_pc = "none"
    /\ LET r == SchemaBuilder_init(doc, installed) IN
       /\ b_pc' = IF Raised(r.exc) THEN "init_raised" ELSE "constructed"
       /\ b_exc' = r.exc
       /\ b_autoindex' = r.autoindex
       /\ b_field_types' = r.field_types
    /\ UNCHANGED <<doc, indexes, installed, engine_ok, b_fields, b_schema, calls,
                   registered, v_out, e_out, ver_out>>

\* SchemaBuilder(schema_dict, context) with the context validate() returned
ConstructWithContext ==
    /\ b_pc = "none"
    /\ v_out.status = "returned"
    /\ LET r == SchemaBuilder_init(doc, installed) IN
       /\ b_pc' = IF Raised(r.exc) THEN "init_raised" ELSE "constructed"
       /\ b_exc' = r.exc
       /\ b_autoindex' = r.autoindex
       /\ b_field_types' = v_out.field_types
    /\ UNCHANGED <<doc, indexes, installed, engine_ok, b_fields, b_schema, calls,
                   registered, v_out, e_out, ver_out>>

\* build(): fields = self._build_fields()
BuildFields ==
    /\ b_pc = "constructed"
    /\ LET r == build_fields(doc, installed, engine_ok # "field_rejected") IN
       /\ b_pc' = IF Raised(r.exc) THEN "build_raised" ELSE "fields_built"
       /\ b_exc' = build_wrap(r.exc)
       /\ b_fields' = IF Raised(r.exc) THEN <<>> ELSE r.fields
    /\ UNCHANGED <<doc, indexes, installed, engine_ok, b_autoindex, b_field_types,
                   b_schema, calls, registered, v_out, e_out, ver_out>>

\* build(): schema = CollectionSchema(fields=fields, ...)
Assemble ==
    /\ b_pc = "fields_built"
    /\ IF engine_ok = "schema_rejected"
       THEN /\ b_pc' = "build_raised"
            /\ b_exc' = build_wrap(Raise("Exception", <<"CollectionSchema rejected">>))
       ELSE /\ b_pc' = "assembled"
            /\ b_exc' = NoExc
    /\ UNCHANGED <<doc, indexes, installed, engine_ok, b_autoindex, b_field_types,
                   b_fields, b_schema, calls, registered, v_out, e_out, ver_out>>

\* build(): schema.verify(), a failure re-raised as SchemaConversionError
Verify ==
    /\ b_pc = "assembled"
    /\ IF engine_ok = "verify_rejected"
       THEN /\ b_pc' = "build_raised"
            /\ b_exc' = build_wrap(SCE(<<"Schema validation failed: ", "verify rejected">>))
       ELSE /\ b_pc' = "verified"
            /\ b_exc' = NoExc
    /\ UNCHANGED <<doc, indexes, installed, engine_ok, b_autoindex, b_field_types,
                   b_fields, b_schema, calls, registered, v_out, e_out, ver_out>>

\* build(): validate_index_params on every declared index
ValidateIndexes ==
    /\ b_pc = "verified"
    /\ LET e == validate_all_indexes(indexes, b_field_types, installed) IN
       /\ b_pc' = IF Raised(e) THEN "build_raised" ELSE "indexes_validated"
       /\ b_exc' = build_wrap(e)
    /\ UNCHANGED <<doc, indexes, installed, engine_ok, b_autoindex, b_field_types,
                   b_fields, b_schema, calls, registered, v_out, e_out, ver_out>>

\* build(): return schema
BuildReturn ==
    /\ b_pc = "indexes_validated"
    /\ b_pc' = "done"
    /\ b_schema' = CollectionSchema(b_fields)
    /\ UNCHANGED <<doc, indexes, installed, engine_ok, b_autoindex, b_field_types,
                   b_fields, b_exc, calls, registered, v_out, e_out, ver_out>>

\* the builder exists and no build() is under way
BuilderIdle == b_pc \in {"constructed", "done", "build_raised"}

\* builder.get_index_params(builder.indexes[i])
GetIndexParams(i) ==
    /\ BuilderIdle
    /\ Len(calls) < MaxCalls
    /\ \E r \in {get_index_params(indexes[i], doc.functions, b_field_types, b_autoindex,
                                  installed)} :
          /\ calls' = Append(calls, [op |-> "get_index_params", idx |-> i, exc |-> r.exc,
                                     out |-> <<r.result>>, before |-> indexes])
          /\ indexes' = [indexes EXCEPT ![i] = r.def]
    /\ UNCHANGED <<doc, installed, engine_ok, b_pc, b_autoindex, b_field_types, b_fields,
                   b_schema, b_exc, registered, v_out, e_out, ver_out>>

\* builder.get_create_index_calls()
GetCreateIndexCalls ==
    /\ BuilderIdle
    /\ Len(calls) < MaxCalls
    /\ \E r \in {get_create_index_calls(indexes, doc.functions, b_field_types,
                                        b_autoindex, installed)} :
          /\ calls' = Append(calls, [op |-> "get_create_index_calls", idx |-> 0,
                                     exc |-> r.exc,
                                     out |-> IF Raised(r.exc) THEN <<>> ELSE r.out,
                                     before |-> indexes])
          /\ indexes' = r.defs
    /\ UNCHANGED <<doc, installed, engine_ok, b_pc, b_autoindex, b_field_types, b_fields,
                   b_schema, b_exc, registered, v_out, e_out, ver_out>>

\* builder.get_milvus_index_params(client): every tuple goes to client add_index
GetMilvusIndexParams ==
    /\ BuilderIdle
    /\ Len(calls) < MaxCalls
    /\ \E r \in {get_milvus_index_params(indexes, doc.functions, b_field_types,
                                         b_autoindex, installed)} :
          /\ calls' = Append(calls, [op |-> "get_milvus_index_params", idx |-> 0,
                                     exc |-> r.exc,
                                     out |-> IF Raised(r.exc) THEN <<>> ELSE r.out,
                                     before |-> indexes])
          /\ indexes' = r.defs
          /\ registered' = r.out
    /\ UNCHANGED <<doc, installed, engine_ok, b_pc, b_autoindex, b_field_types, b_fields,
                   b_schema, b_exc, v_out, e_out, ver_out>>

\* builder.is_bm25_function_output_field(field_name)
IsBm25FunctionOutputField(field_name) ==
    /\ BuilderIdle
    /\ Len(calls) < MaxCalls
    /\ calls' = Append(calls, [op |-> "is_bm25_function_output_field", idx |-> 0,
                               exc |-> NoExc,
                               out |-> <<[field_name |-> field_name,
                                          value |-> is_bm25_function_output_field(
                                                        doc.functions, field_name)]>>,
                               before |-> indexes])
    /\ UNCHANGED <<doc, indexes, installed, engine_ok, b_pc, b_autoindex, b_field_types,
                   b_fields, b_schema, b_exc, registered, v_out, e_out, ver_out>>

\* FunctionValidator(field_names, fields).validate_function_index_relationships(
\* functions, indexes) on the document's functions and indexes
ValidateFunctionIndexRelationships ==
    /\ Len(calls) < MaxCalls
    /\ LET i == FunctionValidator_init(doc.fields)
           e == IF Raised(i) THEN i
                ELSE validate_function_index_relationships_error(doc.functions, indexes)
       IN calls' = Append(calls, [op |-> "validate_function_index_relationships",
                                  idx |-> 0, exc |-> e,
                                  out |-> IF Raised(e) THEN <<>>
                                          ELSE validate_function_index_relationships(
                                                   doc.functions, indexes),
                                  before |-> indexes])
    /\ UNCHANGED <<doc, indexes, installed, engine_ok, b_pc, b_autoindex, b_field_types,
                   b_fields, b_schema, b_exc, registered, v_out, e_out, ver_out>>

\* builder.get_function_index_warnings()
GetFunctionIndexWarnings ==
    /\ BuilderIdle
    /\ Len(calls) < MaxCalls
    /\ LET r == get_function_index_warnings(doc, indexes, b_autoindex)
       IN calls' = Append(calls, [op |-> "get_function_index_warnings", idx |-> 0,
                                  exc |-> r.exc, out |-> r.out, before |-> indexes])
    /\ UNCHANGED <<doc, indexes, installed, engine_ok, b_pc, b_autoindex, b_field_types,
                   b_fields, b_schema, b_exc, registered, v_out, e_out, ver_out>>

\* SchemaValidator(schema_dict).validate(); the set of field names is iterated
\* in some order
Validate ==
    /\ v_out.status = "notrun"
    /\ \E order \in Orderings(DOMAIN validate_fields(doc.fields,
                        [exc |-> NoExc, errors |-> <<>>, field_types |-> <<>>,
                         fields |-> <<>>], installed).field_types) :
          v_out' = SchemaValidator_validate(doc, indexes, installed, order)
    /\ UNCHANGED <<doc, indexes, installed, engine_ok, b_pc, b_autoindex, b_field_types,
                   b_fields, b_schema, b_exc, calls, registered, e_out, ver_out>>

\* validate_schema(file_path); the set of field names is iterated in some order
ValidateSchema ==
    /\ e_out.status = "notcalled"
    /\ \E order \in Orderings(DOMAIN builder_field_types(doc.fields, <<>>)) :
          e_out' = validate_schema(doc, indexes, installed, engine_ok, order)
    /\ UNCHANGED <<doc, indexes, installed, engine_ok, b_pc, b_autoindex, b_field_types,
                   b_fields, b_schema, b_exc, calls, registered, v_out, ver_out>>

\* parse_version(version) and the three helpers on the same string
ParseVersion(version) ==
    /\ ver_out.status = "notparsed"
    /\ ver_out' = [status |-> "parsed",
                   input |-> version,
                   parsed |-> parse_version(VerStr(version)),
                   matches |-> version_matches(installed, VerStr(version)),
                   at_least |-> version_at_least(installed, VerStr(version)),
                   at_most |-> version_at_most(installed, VerStr(version)),
                   supported |-> supports(installed, MinGatedVersion)]
    /\ UNCHANGED <<doc, indexes, installed, engine_ok, b_pc, b_autoindex, b_field_types,
                   b_fields, b_schema, b_exc, calls, registered, v_out, e_out>>

-----------------------------------------------------------------------------
(* build(): specification and properties *)

FieldPoolBuild == {F_id, F_id2, F_txt, F_vec, F_title, F_unknown}

IndexPoolBuild == {I_id_inverted, I_vec_ivf}

InitBuild ==
    \E fs \in SeqsOf(FieldPoolBuild, 1, MaxFields),
       ix \in SeqsOf(IndexPoolBuild, 0, MaxIndexes),
       engine \in EngineOutcomes :
        Start(Document(fs, <<>>), ix, <<2, 6, 0>>, engine)

NextBuild ==
    \/ Construct
    \/ BuildFields
    \/ Assemble
    \/ Verify
    \/ ValidateIndexes
    \/ BuildReturn

SpecBuild == InitBuild /\ [][NextBuild]_vars

\* the positions of the document's primary-flagged fields
PrimaryFlagged == {i \in 1..Len(doc.fields) : IsPrimaryFlagged(doc.fields[i])}

\* every field definition passes field validation and is built
AllFieldsBuild ==
    \A i \in 1..Len(doc.fields) :
        /\ ~Raised(FieldValidator_validate(doc.fields[i], installed))
        /\ ~Raised(build_field(doc.fields[i], installed, engine_ok # "field_rejected").exc)

AllIndexesValid ==
    \A j \in 1..Len(indexes) :
        ~Raised(validate_index_params(indexes[j], b_field_types, installed))

BuildEnded == b_pc \in {"done", "build_raised"}

\* C1: build() returns a descriptor only when every field validated and was
\* built, exactly one field is primary-flagged, the engine accepted and
\* verified the schema and every declared index validated; the descriptor
\* then has len(fields) fields in document order with exactly one primary;
\* in every other case build() ends raising and no descriptor exists.
C1_AllOrNothing ==
    /\ b_schema.present =>
          /\ b_pc = "done"
          /\ AllFieldsBuild
          /\ Cardinality(PrimaryFlagged) = 1
          /\ engine_ok = "ok"
          /\ AllIndexesValid
          /\ Len(b_schema.fields) = Len(doc.fields)
          /\ \A i \in 1..Len(doc.fields) :
                /\ b_schema.fields[i].name = doc.fields[i].name.s
                /\ b_schema.fields[i].dtype = doc.fields[i].type.s
          /\ Cardinality({i \in 1..Len(b_schema.fields) : b_schema.fields[i].is_primary}) = 1
    /\ b_pc = "done" => b_schema.present
    /\ b_pc = "build_raised" => Raised(b_exc) /\ ~b_schema.present
    /\ (BuildEnded /\ ~(AllFieldsBuild /\ Cardinality(PrimaryFlagged) = 1
                        /\ engine_ok = "ok" /\ AllIndexesValid))
          => b_pc = "build_raised"

C1_Witness ==
    /\ b_pc = "done"
    /\ b_schema.present
    /\ Len(doc.fields) = 2
    /\ Len(indexes) >= 1

\* C2 as stated: with zero or two-or-more primary-flagged fields build()
\* raises SchemaConversionError and the message states the count found.
C2_CountStated ==
    (BuildEnded /\ Cardinality(PrimaryFlagged) # 1) =>
        /\ b_pc = "build_raised"
        /\ b_exc.exc = "SchemaConversionError"
        /\ NatStr(Cardinality(PrimaryFlagged)) \in Range(b_exc.msg)

\* C2 amended: when every field definition validates and is built, two or
\* more primary-flagged fields raise SchemaConversionError "Schema has N
\* primary fields, must have exactly one" with N the count found, and zero
\* primary-flagged fields raise "Schema must have exactly one primary
\* field", which states no count.
C2_CountStatedWhenSeveral ==
    (BuildEnded /\ AllFieldsBuild /\ Cardinality(PrimaryFlagged) # 1) =>
        /\ b_pc = "build_raised"
        /\ b_exc.exc = "SchemaConversionError"
        /\ Cardinality(PrimaryFlagged) >= 2 =>
              b_exc.msg = <<"Schema has ", NatStr(Cardinality(PrimaryFlagged)),
                            " primary fields, must have exactly ", "one">>
        /\ Cardinality(PrimaryFlagged) = 0 =>
              b_exc.msg = <<"Schema must have exactly one primary field">>

C2_Witness ==
    /\ b_pc = "build_raised"
    /\ AllFieldsBuild
    /\ Cardinality(PrimaryFlagged) >= 2
    /\ NatStr(Cardinality(PrimaryFlagged)) \in Range(b_exc.msg)

-----------------------------------------------------------------------------
(* Autoindex resolution: specification and properties *)

MaxAutoKeys == 2

AutoValues == {Absent, None, PyBool(TRUE), PyBool(FALSE), PyStr("yes"), PyInt(1)}

\* the autoindex keys present in a document, with their place
PresentKeys(top, nested) ==
    {<<"", k>> : k \in {x \in Range(AutoKeys) : Has(top[x])}}
    \cup {<<"settings.", k>> : k \in {x \in Range(AutoKeys) : Has(nested[x])}}

InitAutoindex ==
    \E top \in [Range(AutoKeys) -> AutoValues],
       nested \in [Range(AutoKeys) -> AutoValues],
       settings \in {"absent", "dict"},
       req \in {NoRequirements, MinVersion(V_2_5_0), MinVersion(V_9_0_0)} :
        /\ Cardinality(PresentKeys(top, nested)) <= MaxAutoKeys
        /\ settings = "absent" => nested = NoAutoindex
        /\ Start([Document(<<F_id, F_vec>>, <<>>) EXCEPT !.top = top, !.nested = nested,
                                                        !.settings = settings,
                                                        !.pymilvus = req],
                 <<I_vec_hnsw>>, <<2, 6, 0>>, "ok")

NextAutoindex ==
    \/ Construct
    \/ Validate

SpecAutoindex == InitAutoindex /\ [][NextAutoindex]_vars

\* the autoindex keys of the document that are set: present with a value
\* other than null, as <<prefix, key>>
AutoindexSet ==
    {<<"", k>> : k \in {x \in Range(AutoKeys) : Get(doc.top[x]) # None}}
    \cup {<<"settings.", k>> :
            k \in {x \in Range(AutoKeys) : doc.settings = "dict" /\ Get(doc.nested[x]) # None}}

\* the value of a set key
AutoindexValue(pk) == IF pk[1] = "" THEN doc.top[pk[2]] ELSE doc.nested[pk[2]]

RequirementsPass == ~Raised(ensure_runtime_requirements(doc, installed))

Constructed == b_pc # "none"

Validated == v_out.status # "notrun"

\* C3: with two or more of the six autoindex keys set, whatever their values,
\* SchemaBuilder construction raises SchemaConversionError (the 'Multiple
\* autoindex settings found' one once the version requirements passed) and
\* SchemaValidator.validate returns with that failure as an ERROR message.
C3_MultipleAutoindex ==
    Cardinality(AutoindexSet) >= 2 =>
        /\ Constructed =>
              /\ b_pc = "init_raised"
              /\ b_exc.exc = "SchemaConversionError"
              /\ RequirementsPass => Head(b_exc.msg) = "Multiple autoindex settings found: "
        /\ Validated =>
              /\ v_out.status = "returned"
              /\ \E i \in 1..Len(v_out.messages) :
                    /\ v_out.messages[i].severity = "ERROR"
                    /\ Head(v_out.messages[i].text) = "Multiple autoindex settings found: "
                    /\ (Constructed /\ RequirementsPass) =>
                          v_out.messages[i].text = b_exc.msg

C3_Witness ==
    /\ Cardinality(AutoindexSet) >= 2
    /\ \E pk \in AutoindexSet : ~IsBool(AutoindexValue(pk))
    /\ b_pc = "init_raised"
    /\ Head(b_exc.msg) = "Multiple autoindex settings found: "
    /\ Validated

\* what C4 says of the builder when the outcome of resolution is given
C4_Resolution(construction_succeeds) ==
    /\ (AutoindexSet = {} /\ Constructed /\ RequirementsPass) =>
          b_pc = "constructed" /\ b_autoindex = FALSE
    /\ \A pk \in AutoindexSet :
          AutoindexSet = {pk} =>
              LET value == AutoindexValue(pk) IN
              /\ (IsBool(value) /\ Constructed /\ construction_succeeds) =>
                    /\ b_pc = "constructed"
                    /\ b_autoindex = (value = PyBool(TRUE))
              /\ (~IsBool(value) /\ Constructed /\ RequirementsPass) =>
                    /\ b_pc = "init_raised"
                    /\ \E i \in 1..Len(b_exc.msg) : b_exc.msg[i] = pk[1] \o pk[2]
                    /\ \E i \in 1..Len(b_exc.msg) : b_exc.msg[i] = TypeName(value)
              /\ (~IsBool(value) /\ Validated) =>
                    \E i \in 1..Len(v_out.messages) :
                        /\ v_out.messages[i].severity = "ERROR"
                        /\ pk[1] \o pk[2] \in Range(v_out.messages[i].text)
                        /\ TypeName(value) \in Range(v_out.messages[i].text)

\* C4 as stated: with no key set the flag is false; with exactly one key set
\* to a boolean the flag is that boolean and builder construction succeeds;
\* a sole non-boolean value raises an error citing the key (with its
\* 'settings.' prefix when nested) and the value's type.
C4_AtMostOneKey == C4_Resolution(TRUE)

\* C4 amended: as stated, with builder construction succeeding for a sole
\* boolean key provided the document's pymilvus requirements are met by the
\* installed version; they are checked before the flag is resolved, and
\* their failure raises instead.
C4_AtMostOneKeyRequirementsMet ==
    /\ C4_Resolution(RequirementsPass)
    /\ (Constructed /\ ~RequirementsPass) => b_pc = "init_raised" /\ b_autoindex = FALSE

C4_Witness ==
    /\ \E pk \in AutoindexSet :
          /\ AutoindexSet = {pk}
          /\ pk[1] = "settings."
          /\ AutoindexValue(pk) = PyBool(TRUE)
    /\ RequirementsPass
    /\ b_pc = "constructed"
    /\ b_autoindex

-----------------------------------------------------------------------------
(* Index parameter assembly: specification and properties *)

IndexPoolIndex == {I_id, I_vec, I_vec_hnsw, I_sp, I_sp_ip, I_sp_k1}

InitIndex ==
    \E ix \in SeqsOf(IndexPoolIndex, 1, MaxIndexes),
       fns \in {<<>>, <<Fn_bm25>>, <<Fn_bm25_lower>>},
       flag \in {Absent, PyBool(TRUE)} :
        Start([Document(<<F_id, F_txt, F_vec, F_sp>>, fns) EXCEPT !.top["autoindex"] = flag],
              ix, <<2, 6, 0>>, "ok")

NextIndex ==
    \/ Construct
    \/ \E i \in 1..Len(indexes) : GetIndexParams(i)
    \/ GetCreateIndexCalls
    \/ GetMilvusIndexParams

SpecIndex == InitIndex /\ [][NextIndex]_vars

\* the logged calls of get_index_params
IndexParamsCalls == {c \in 1..Len(calls) : calls[c].op = "get_index_params"}

\* the index definition a logged get_index_params call received
Received(c) == calls[c].before[calls[c].idx]

\* the result of a logged get_index_params call
Result(c) == calls[c].out[1]

\* the document declares a BM25 function, in any spelling of the type the
\* function validator accepts, whose output field is field_name
DeclaredBM25Output(field_name) ==
    \E i \in 1..Len(doc.functions) :
        /\ IsStr(doc.functions[i].type)
        /\ Upper(doc.functions[i].type.s) = "BM25"
        /\ ~Raised(FunctionValidator_validate(doc.functions[i], DOMAIN b_field_types,
                                              doc.fields))
        /\ field_name \in Range(doc.functions[i].output_field_names.names)

\* C5: get_index_params on a definition without a type: for the output field
\* of a BM25 function the type is SPARSE_INVERTED_INDEX and the metric BM25
\* (where the definition gives none), autoindex or not; otherwise with
\* autoindex resolved true the type is AUTOINDEX; otherwise it raises
\* SchemaConversionError 'missing required type'.
C5_TypePriority ==
    \A c \in IndexParamsCalls :
        ~Truthy(Get(Received(c).type)) =>
            IF DeclaredBM25Output(Received(c).field.s)
            THEN /\ ~Raised(calls[c].exc)
                 /\ Result(c).index_type = "SPARSE_INVERTED_INDEX"
                 /\ ~Has(Received(c).metric) => Result(c).metric_type = PyStr("BM25")
            ELSE IF b_autoindex
            THEN /\ ~Raised(calls[c].exc)
                 /\ Result(c).index_type = "AUTOINDEX"
            ELSE /\ calls[c].exc.exc = "SchemaConversionError"
                 /\ "' missing required 'type'. " \in Range(calls[c].exc.msg)

BM25Defaults ==
    [k \in {"inverted_index_algo", "bm25_k1", "bm25_b"} |->
        CASE k = "inverted_index_algo" -> PyStr("DAAT_MAXSCORE")
          [] k = "bm25_k1" -> PyFloat("1.2")
          [] k = "bm25_b" -> PyFloat("0.75")]

\* C6: for a declared BM25 function in any accepted spelling, get_index_params
\* on a typeless definition (with no metric of its own) for its output field
\* yields SPARSE_INVERTED_INDEX, metric BM25 and the three default params,
\* each param the user supplied keeping the user's value.
C6_BM25RoundTrip ==
    \A c \in IndexParamsCalls :
        (/\ ~Truthy(Get(Received(c).type))
         /\ ~Has(Received(c).metric)
         /\ DeclaredBM25Output(Received(c).field.s)) =>
            /\ ~Raised(calls[c].exc)
            /\ Result(c).index_type = "SPARSE_INVERTED_INDEX"
            /\ Result(c).metric_type = PyStr("BM25")
            /\ Result(c).params.t = "dict"
            /\ \A k \in DOMAIN BM25Defaults :
                  /\ k \in DOMAIN Result(c).params.d
                  /\ Result(c).params.d[k] =
                        IF Received(c).params.t = "dict" /\ k \in DOMAIN Received(c).params.d
                        THEN Received(c).params.d[k]
                        ELSE BM25Defaults[k]

\* C7: a second get_index_params on the same index definition object, after a
\* first that returned, returns an equal result and does not raise.
C7_Idempotent ==
    \A c1, c2 \in IndexParamsCalls :
        (c1 < c2 /\ calls[c1].idx = calls[c2].idx /\ ~Raised(calls[c1].exc)) =>
            /\ ~Raised(calls[c2].exc)
            /\ Result(c2) = Result(c1)

\* the index definitions as the document declared them
DeclaredIndexes == IF calls = <<>> THEN indexes ELSE calls[1].before

\* get_index_params on the i-th definition as declared
Standalone(i) ==
    get_index_params(DeclaredIndexes[i], doc.functions, b_field_types, b_autoindex, installed)

\* C8: whatever was called before on the builder, get_milvus_index_params
\* registers for every declared index, in declaration order, the tuple
\* get_index_params produces for that definition (and raises only where
\* get_index_params raises for some declared index).
C8_Parity ==
    \A c \in 1..Len(calls) :
        calls[c].op = "get_milvus_index_params" =>
            IF \A i \in 1..Len(DeclaredIndexes) : ~Raised(Standalone(i).exc)
            THEN /\ ~Raised(calls[c].exc)
                 /\ Len(calls[c].out) = Len(DeclaredIndexes)
                 /\ \A i \in 1..Len(DeclaredIndexes) :
                       calls[c].out[i] = IndexTuple(DeclaredIndexes[i], Standalone(i).result)
            ELSE Raised(calls[c].exc)

-----------------------------------------------------------------------------
(* SchemaValidator.validate: specification and properties *)

FieldPoolValidate == {F_id, F_txt, F_vec, F_title, F_unknown, F_noname, F_notype, F_intname}

IndexPoolValidate == {I_ghost, I_title}

\* a pymilvus section that is a list instead of a mapping
BadRequirements == [NoRequirements EXCEPT !.shape = "list"]

\* the documents differ in their fields, functions and settings
InitValidate ==
    \E fs \in SeqsOf(FieldPoolValidate, 1, MaxFields),
       ix \in SeqsOf(IndexPoolValidate, 0, MaxIndexes),
       fns \in {<<>>, <<Fn_bm25_ghost>>},
       variant \in {"plain", "bad_version", "autoindex_conflict"} :
        Start([Document(fs, fns) EXCEPT
                  !.pymilvus = IF variant = "bad_version" THEN BadRequirements ELSE @,
                  !.top = IF variant = "autoindex_conflict"
                          THEN [k \in Range(AutoKeys) |->
                                   IF k = "use_autoindex" THEN Absent ELSE PyBool(TRUE)]
                          ELSE @],
              ix, <<2, 6, 0>>, "ok")

NextValidate == Validate

SpecValidate == InitValidate /\ [][NextValidate]_vars

\* the positions of the fields that fail field validation
FailingFields ==
    {i \in 1..Len(doc.fields) : Raised(FieldValidator_validate(doc.fields[i], installed))}

PassesFieldValidation(field_def) == ~Raised(FieldValidator_validate(field_def, installed))

\* the name -> type map of the fields that pass field validation
RECURSIVE TypeMap(_)
TypeMap(fs) ==
    IF fs = <<>> THEN <<>>
    ELSE LET f == fs[Len(fs)]
             rest == TypeMap(SubSeq(fs, 1, Len(fs) - 1))
         IN IF IsStr(f.name) /\ IsStr(f.type) THEN DictSet(rest, f.name.s, f.type.s) ELSE rest

PassingFields == SelectSeq(doc.fields, PassesFieldValidation)

ErrorTexts == {v_out.messages[i].text :
                  i \in {j \in 1..Len(v_out.messages) : v_out.messages[j].severity = "ERROR"}}

\* the data-shape problems of the document, as the error each one stands for
ShapeProblems ==
    {FieldValidator_validate(doc.fields[i], installed) : i \in 1..Len(doc.fields)}
    \cup {IndexValidator_validate(indexes[j], TypeMap(PassingFields), installed) :
             j \in 1..Len(indexes)}
    \cup {FunctionValidator_validate(doc.functions[k], DOMAIN TypeMap(PassingFields),
                                     doc.fields) : k \in 1..Len(doc.functions)}
    \cup {ensure_runtime_requirements(doc, installed), resolve_autoindex_flag(doc).exc}

\* C9: validate does not raise for data-shape problems: it returns (result,
\* context), and every problem of a field, an index, a function, the version
\* section or the autoindex keys is an ERROR message of the result.
C9_NeverRaises ==
    Validated =>
        /\ v_out.status = "returned"
        /\ \A e \in ShapeProblems : Raised(e) => e.msg \in ErrorTexts

\* the ERROR messages the failing fields stand for, in document order
RECURSIVE FieldErrors(_)
FieldErrors(fs) ==
    IF fs = <<>> THEN <<>>
    ELSE (IF PassesFieldValidation(Head(fs)) THEN <<>>
          ELSE <<Msg("ERROR", FieldValidator_validate(Head(fs), installed).msg)>>)
         \o FieldErrors(Tail(fs))

\* the number of messages recorded before the fields are looked at
Preamble ==
    (IF RequirementsPass THEN 0 ELSE 1)
    + (IF Raised(resolve_autoindex_flag(doc).exc) THEN 1 ELSE 0)

\* C10: validate accumulates: every failing field gives exactly one ERROR and
\* is left out of context.field_types and context.fields, the passing fields
\* are kept in document order, and every index is validated against the type
\* map of the passing fields, an index on a failed field being reported as
\* referring to an unknown field.
C10_Accumulates ==
    Validated =>
        /\ v_out.status = "returned"
        /\ v_out.fields = PassingFields
        /\ v_out.field_types = TypeMap(PassingFields)
        /\ SubSeq(v_out.messages, Preamble + 1, Preamble + Cardinality(FailingFields))
              = FieldErrors(doc.fields)
        /\ \A j \in 1..Len(indexes) :
              LET e == IndexValidator_validate(indexes[j], TypeMap(PassingFields), installed)
              IN /\ Raised(e) => e.msg \in ErrorTexts
                 /\ indexes[j].field.s \notin DOMAIN TypeMap(PassingFields) =>
                       /\ Head(e.msg) = "Index refers to unknown field '"
                       /\ e.msg \in ErrorTexts

-----------------------------------------------------------------------------
(* validate_schema: specification and properties *)

\* an index on a vector field whose type is given as null
I_vec_null == Index(PyStr("vec"), None)

\* an index on the varchar field of a type other than the recommended one
I_txt_bitmap == Index(PyStr("txt"), PyStr("bitmap"))

\* a BM25 function whose output is the dense vector field
Fn_bm25_vec == Function(PyStr("BM25"), "txt", "vec")

\* the elements of q at the positions in S, in the order of q
Pick(q, S) ==
    LET F[i \in 0..Len(q)] ==
            IF i = 0 THEN <<>>
            ELSE IF i \in S THEN Append(F[i - 1], q[i]) ELSE F[i - 1]
    IN F[Len(q)]

\* the lists made of some elements of q, in the order of q
SubLists(q) == {Pick(q, S) : S \in SUBSET (1..Len(q))}

EntryFields == <<F_id, F_txt, F_sp, F_vec>>

EntryIndexes == <<I_vec_hnsw, I_vec_null, I_sp, I_txt_bitmap>>

\* the files differ in their state, their fields, indexes and functions; the
\* engine and the installed version vary for the readable files
InitEntry ==
    \E fs \in SubLists(EntryFields),
       ix \in SubLists(EntryIndexes),
       fns \in {<<>>, <<Fn_bm25>>, <<Fn_bm25_ghost>>, <<Fn_bm25_vec>>},
       variant \in FileStates \cup EngineOutcomes,
       version \in InstalledVersions :
        Start([Document(fs, fns) EXCEPT
                  !.file = IF variant \in FileStates THEN variant ELSE "ok"],
              ix, version, IF variant \in EngineOutcomes THEN variant ELSE "ok")

NextEntry ==
    \/ ValidateSchema
    \/ Validate

SpecEntry == InitEntry /\ [][NextEntry]_vars

Called == e_out.status # "notcalled"

\* the exceptions raised by the stages of validate_schema on the document:
\* loading, construction, build, function validation and warning collection
EntryFailures ==
    LET b == SchemaBuilder_init(doc, installed) IN
    {e \in {SchemaLoader_error(doc),
            b.exc,
            SchemaBuilder_build(doc, indexes, b.field_types, installed, engine_ok).exc,
            validate_function_loop(doc.functions, DOMAIN b.field_types, doc.fields),
            get_index_warnings_error(indexes),
            get_function_index_warnings(doc, indexes, b.autoindex).exc} : Raised(e)}

\* is the string a message with a severity prefix
IsPrefixed(str) == Len(str) >= 2 /\ str[1] \in {"ERROR", "WARNING", "INFO"} /\ str[2] = ": "

IsAdvisory(str) == IsPrefixed(str) /\ str[1] \in {"WARNING", "INFO"}

\* C12: in the ordered list of messages returned by validation every error
\* precedes every WARNING and INFO: in the strings validate_schema returns and in
\* the messages of the Schema Validator's result.
C12_ErrorsFirst ==
    /\ (Called /\ e_out.status = "returned") =>
          \A i, j \in 1..Len(e_out.out) :
              (i < j /\ IsAdvisory(e_out.out[i])) => IsAdvisory(e_out.out[j])
    /\ (Validated /\ v_out.status = "returned") =>
          \A i, j \in 1..Len(v_out.messages) :
              (i < j /\ v_out.messages[i].severity # "ERROR") =>
                  v_out.messages[j].severity # "ERROR"

-----------------------------------------------------------------------------
(* version gating: specification and properties *)

F_f16 == [Field(PyStr("f16"), PyStr("float16_vector")) EXCEPT !.dim = PyInt(128)]

F_bf16 == [Field(PyStr("bf16"), PyStr("bfloat16_vector")) EXCEPT !.dim = PyInt(128)]

F_i8 == [Field(PyStr("i8"), PyStr("int8_vector")) EXCEPT !.dim = PyInt(128)]

I_vec_cagra == [Index(PyStr("vec"), PyStr("GPU_CAGRA")) EXCEPT !.metric = PyStr("L2")]

I_vec_brute == [Index(PyStr("vec"), PyStr("GPU_BRUTE_FORCE")) EXCEPT !.metric = PyStr("L2")]

I_f16_hnsw == [I_vec_hnsw EXCEPT !.field = PyStr("f16")]

\* installed versions around the minimum of the gated types and indexes
GatingVersions == {<<2, 5, 0>>, <<2, 5, 9>>, <<2, 6, 0>>, <<2, 6, 1>>, <<3, 0>>}

GatingFields == <<F_id, F_vec, F_f16, F_bf16, F_i8>>

GatingIndexes == <<I_vec_hnsw, I_vec_cagra, I_vec_brute, I_f16_hnsw>>

InitGating ==
    \E fs \in SubLists(GatingFields),
       ix \in SubLists(GatingIndexes),
       version \in GatingVersions :
        /\ fs # <<>>
        /\ Start(Document(fs, <<>>), ix, version, "ok")

NextGating ==
    \/ Validate
    \/ ValidateSchema

SpecGating == InitGating /\ [][NextGating]_vars

\* does the text hold the tokens of part, in a row
Contains(text, part) ==
    \E i \in 1..Len(text) :
        i + Len(part) - 1 <= Len(text) /\ SubSeq(text, i, i + Len(part) - 1) = part

\* the document declares a field of a gated type
GatedFieldTypeUsed ==
    \E i \in 1..Len(doc.fields) : Get(doc.fields[i].type).s \in OPTIONAL_TYPE_MIN_VERSIONS

\* the document declares an index of a gated type on a declared field
GatedIndexTypeUsed ==
    \E j \in 1..Len(indexes) :
        /\ Upper(Get(indexes[j].type).s) \in OPTIONAL_INDEX_MIN_VERSIONS
        /\ \E i \in 1..Len(doc.fields) : doc.fields[i].name = indexes[j].field

BelowMinimum == TupleLess(installed, MinGatedVersion)

\* every index of the document is on a field the document declares
IndexesOnDeclaredFields ==
    \A j \in 1..Len(indexes) : \E i \in 1..Len(doc.fields) :
        doc.fields[i].name = indexes[j].field

ErrorsOf(messages) == SelectSeq(messages, LAMBDA m : m.severity = "ERROR")

\* C13: version gating.  With the installed version below the minimum of a gated
\* field type or index type, a document that uses it is rejected with an error
\* holding "Requires pymilvus>=" followed by the minimum; with the installed
\* version at or above the minimum the same document is accepted.
C13_VersionGating ==
    (Validated /\ v_out.status = "returned" /\ (GatedFieldTypeUsed \/ GatedIndexTypeUsed)) =>
        IF BelowMinimum
        THEN \E i \in 1..Len(v_out.messages) :
                /\ v_out.messages[i].severity = "ERROR"
                /\ Contains(v_out.messages[i].text, OPTIONAL_REQUIREMENTS)
        ELSE IndexesOnDeclaredFields => ErrorsOf(v_out.messages) = <<>>

-----------------------------------------------------------------------------
(* validation against build(): specification and properties *)

BlockingFields == <<F_id, F_txt, F_vec, F_unknown>>

BlockingIndexes == <<I_vec_hnsw, I_vec_ivf, I_ghost>>

\* the documents differ in their fields, indexes, functions and settings; the
\* engine accepts what it is given
InitBlocking ==
    \E fs \in SubLists(BlockingFields),
       ix \in SubLists(BlockingIndexes),
       fns \in {<<>>, <<Fn_bm25_ghost>>, <<Fn_bm25_vec>>},
       variant \in {"plain", "bad_version", "autoindex_conflict"} :
        Start([Document(fs, fns) EXCEPT
                  !.pymilvus = IF variant = "bad_version" THEN BadRequirements ELSE @,
                  !.top = IF variant = "autoindex_conflict"
                          THEN [k \in Range(AutoKeys) |->
                                   IF k = "use_autoindex" THEN Absent ELSE PyBool(TRUE)]
                          ELSE @],
              ix, <<2, 6, 0>>, "ok")

NextBlocking ==
    \/ Validate
    \/ Construct
    \/ BuildFields
    \/ Assemble
    \/ Verify
    \/ ValidateIndexes
    \/ BuildReturn

SpecBlocking == InitBlocking /\ [][NextBlocking]_vars

\* SchemaBuilder(document) followed by build() has raised or returned
BuilderEnded == b_pc \in {"init_raised", "build_raised", "done"}

\* C14: ERROR severity blocks the build.  For every document on which the
\* Schema Validator reports at least one ERROR, constructing the builder and
\* calling build() raises and yields no descriptor.
C14_ErrorBlocksBuild ==
    (Validated /\ v_out.status = "returned" /\ ErrorsOf(v_out.messages) # <<>>
     /\ BuilderEnded) =>
        /\ b_pc \in {"init_raised", "build_raised"}
        /\ Raised(b_exc)
        /\ ~b_schema.present

-----------------------------------------------------------------------------
(* types/compat.py: specification and properties of the version helpers *)

\* the longest version string made of VersionChars that is parsed
MaxVersionLen == 3

VersionChars == {"1", "2", "6", ".", "+", "-", "r", " "}

V_2_6_0rc1 == <<"2", ".", "6", ".", "0", "r", "c", "1">>

VersionExamples ==
    {V_2_6_0rc1, V_2_5_0, V_9_0_0,
     <<"2", ".", "6", ".", "0">>, <<"2", ".", "6", ".", "1">>,
     <<"2", ".", "6", ".", "0", "+", "c", "u">>, <<"2", ".", "6", "-", "1", ".", "x">>,
     <<"1", "0", ".", "2">>, <<"3", ".", "0">>}

VersionInputs == SeqsOf(VersionChars, 0, MaxVersionLen) \cup VersionExamples

InitVersion ==
    \E version \in GatingVersions : Start(Document(<<F_id>>, <<>>), <<>>, version, "ok")

NextVersion == \E version \in VersionInputs : ParseVersion(version)

SpecVersion == InitVersion /\ [][NextVersion]_vars

Parsed == ver_out.status = "parsed"

\* the positions of the separators in a version string
SeparatorsOf(chars) == {i \in 1..Len(chars) : chars[i] \in {".", "+", "-"}}

\* the position of the k-th separator: 0 before the first, one past the end
\* after the last
SeparatorAt(chars, k) ==
    IF k = 0 THEN 0
    ELSE IF k > Cardinality(SeparatorsOf(chars)) THEN Len(chars) + 1
    ELSE CHOOSE p \in SeparatorsOf(chars) :
            Cardinality({q \in SeparatorsOf(chars) : q < p}) = k - 1

\* the components of a version string: what lies between its separators
ComponentsOf(chars) ==
    [k \in 1..(Cardinality(SeparatorsOf(chars)) + 1) |->
        SubSeq(chars, SeparatorAt(chars, k - 1) + 1, SeparatorAt(chars, k) - 1)]

\* the values of the components up to the first that is not a number
LeadingComponents(chars) ==
    LET comps == ComponentsOf(chars)
        n == Cardinality({k \in 1..Len(comps) : \A j \in 1..k : IsDigit(comps[j])})
    IN [k \in 1..n |-> IntOf(comps[k], 0)]

\* lexicographic order of tuples: equal up to a position where a ends or is smaller
LexLess(a, b) ==
    \E k \in 1..Len(b) :
        /\ \A j \in 1..(k - 1) : j <= Len(a) /\ a[j] = b[j]
        /\ k = Len(a) + 1 \/ (k <= Len(a) /\ a[k] < b[k])

LexLeq(a, b) == a = b \/ LexLess(a, b)

\* the rule of parse_version and of the helpers built on it
VersionRule ==
    LET p == ver_out.parsed IN
    /\ Raised(p.exc) = IsBlank(ver_out.input)
    /\ ~Raised(p.exc) =>
          /\ p.tup = LeadingComponents(ver_out.input)
          /\ ver_out.matches.value = (installed = p.tup)
          /\ ver_out.at_least.value = LexLeq(p.tup, installed)
          /\ ver_out.at_most.value = LexLeq(installed, p.tup)
    /\ ver_out.supported = LexLeq(MinGatedVersion, installed)

\* C15 as stated: parse_version yields the leading numeric components, split on
\* dot, plus and hyphen, up to the first non-numeric component, the helpers and
\* the gating flags compare these tuples lexicographically, and "2.6.0rc1"
\* parses as (2, 6, 0).
C15_ReleaseCandidateKeepsPatch ==
    Parsed =>
        /\ VersionRule
        /\ ver_out.input = V_2_6_0rc1 => ver_out.parsed.tup = <<2, 6, 0>>

\* C15, amended: parse_version yields the leading numeric components, split on
\* dot, plus and hyphen, up to the first non-numeric component, the helpers and
\* the gating flags compare these tuples lexicographically, and "2.6.0rc1"
\* parses as (2, 6): its third component "0rc1" is not numeric.
C15_LeadingNumericComponents ==
    Parsed =>
        /\ VersionRule
        /\ ver_out.input = V_2_6_0rc1 => ver_out.parsed.tup = <<2, 6>>

\* "2.6.0rc1" has been parsed and compared with an installed 2.6.0
C15_Witness ==
    /\ Parsed
    /\ ver_out.input = V_2_6_0rc1
    /\ ver_out.parsed.tup = <<2, 6>>
    /\ installed = <<2, 6, 0>>
    /\ ver_out.at_least.value
    /\ ~ver_out.at_most.value

-----------------------------------------------------------------------------
(* index parameters: specification and properties *)

\* a params mapping with one key
OneParam(k, v) == Dict([x \in {k} |-> v])

\* the params mappings explored: absent, empty, complete, partial, out of range
ParamChoices ==
    {NoParams, Dict(<<>>),
     OneParam("nlist", PyInt(128)), OneParam("nlist", PyInt(0)),
     OneParam("M", PyInt(16)), OneParam("M", PyInt(0)), OneParam("M", PyInt(500)),
     OneParam("efConstruction", PyInt(0)), OneParam("m", PyInt(0)),
     I_vec_hnsw.params,
     Dict([k \in {"M", "efConstruction"} |-> IF k = "M" THEN PyInt(500) ELSE PyInt(200)])}

ParamTypes == {Absent, PyStr("FLAT"), PyStr("IVF_FLAT"), PyStr("ivf_flat"), PyStr("IVF_SQ8"),
               PyStr("IVF_PQ"), PyStr("HNSW"), PyStr("hnsw")}

\* one index on the float_vector field, of every type with every params mapping
InitParams ==
    \E type \in ParamTypes, params \in ParamChoices :
        Start(Document(<<F_id, F_vec>>, <<>>),
              <<[Index(PyStr("vec"), type) EXCEPT !.metric = PyStr("L2"),
                                                  !.params = params]>>,
              <<2, 6, 0>>, "ok")

NextParams ==
    \/ Validate
    \/ Construct
    \/ \E i \in 1..Len(indexes) : GetIndexParams(i)

SpecParams == InitParams /\ [][NextParams]_vars

\* the required parameter names the index definition lacks
MissingParams(index_def) ==
    LET given == IF index_def.params.t = "dict" THEN DOMAIN index_def.params.d ELSE {}
        type == Upper(Get(index_def.type).s)
    IN (IF type \in {"IVF_FLAT", "IVF_SQ8", "IVF_PQ"} THEN {"nlist"}
        ELSE IF type = "HNSW" THEN {"M", "efConstruction"}
        ELSE {}) \ given

\* the names in the order sorted() gives them
SortedNames(S) == SelectSeq(<<"M", "efConstruction", "nlist">>, LAMBDA x : x \in S)

\* the error for the missing required parameters of the index definition
MissingParamsError(index_def) ==
    <<"Index '", Upper(Get(index_def.type).s), "' for field '", index_def.field.s,
      "' missing required parameters: ">> \o SortedNames(MissingParams(index_def))

\* C16: the parameter checks always run, also with params absent or empty.  An
\* IVF_FLAT, IVF_SQ8 or IVF_PQ index without nlist, or an HNSW index without M
\* or efConstruction, makes validation raise exactly one error that lists all
\* the missing names in sorted order, whatever the values of the parameters
\* that are present.
C16_MissingParamsListed ==
    \A j \in 1..Len(indexes) :
        MissingParams(indexes[j]) # {} =>
            /\ (Validated /\ Len(indexes) = 1) =>
                  /\ v_out.status = "returned"
                  /\ ErrorsOf(v_out.messages) = <<Msg("ERROR", MissingParamsError(indexes[j]))>>
            /\ \A c \in IndexParamsCalls :
                  calls[c].idx = j =>
                      /\ calls[c].exc.exc = "SchemaConversionError"
                      /\ calls[c].exc.msg = MissingParamsError(Received(c))

\* an HNSW index that gives only an M below the range was validated and its
\* error lists the missing efConstruction
C16_Witness ==
    /\ Validated
    /\ indexes[1].params = OneParam("M", PyInt(0))
    /\ Upper(indexes[1].type.s) = "HNSW"
    /\ ErrorsOf(v_out.messages)
          = <<Msg("ERROR", <<"Index '", "HNSW", "' for field '", "vec",
                             "' missing required parameters: ", "efConstruction">>)>>

-----------------------------------------------------------------------------
(* get_index_warnings: properties, under SpecEntry *)

\* the positions of the messages of one severity that name the field first
MessagesAbout(severity, field_name) ==
    {i \in 1..Len(v_out.messages) :
        /\ v_out.messages[i].severity = severity
        /\ \E k \in 1..Len(v_out.messages[i].text) :
              /\ v_out.messages[i].text[k] = field_name
              /\ \A h \in 1..(k - 1) :
                    v_out.messages[i].text[h] \notin DOMAIN v_out.field_types}

\* the declared type of the field an index is on, "" when it has none
IndexedFieldType(index_def) ==
    IF IsStr(Get(index_def.field)) /\ index_def.field.s \in DOMAIN v_out.field_types
    THEN v_out.field_types[index_def.field.s] ELSE ""

\* the index gives a type, in any case, that is not the one recommended for its field
Suboptimal(index_def) ==
    /\ IndexedFieldType(index_def) # ""
    /\ Truthy(Get(index_def.type))
    /\ RECOMMENDED_INDEX_TYPES(IndexedFieldType(index_def), installed) # ""
    /\ Upper(index_def.type.s) # RECOMMENDED_INDEX_TYPES(IndexedFieldType(index_def), installed)

\* C17: get_index_warnings never raises and never emits an ERROR; it emits
\* exactly one WARNING, naming the field and its type, for every vector-typed
\* field no index references and none for any other field, and exactly one INFO
\* for every index whose upper-cased type differs from the type recommended for
\* its field.  Stated on documents without functions and with valid fields and
\* indexes, where every message of the validator comes from get_index_warnings.
C17_IndexWarnings ==
    (Validated /\ doc.functions = <<>> /\ doc.fields # <<>>
     /\ Raised(validate_all_indexes(indexes, TypeMap(doc.fields), installed)) = FALSE) =>
        /\ v_out.status = "returned"
        /\ ErrorsOf(v_out.messages) = <<>>
        /\ \A x \in DOMAIN v_out.field_types :
              LET unindexed == /\ v_out.field_types[x] \in VectorTypes
                               /\ \A j \in 1..Len(indexes) : indexes[j].field # PyStr(x)
              IN /\ Cardinality(MessagesAbout("WARNING", x)) = IF unindexed THEN 1 ELSE 0
                 /\ \A i \in MessagesAbout("WARNING", x) :
                       Head(v_out.messages[i].text) = Upper(v_out.field_types[x])
        /\ \A x \in DOMAIN v_out.field_types :
              Cardinality(MessagesAbout("INFO", x))
                 = Cardinality({j \in 1..Len(indexes) :
                                   indexes[j].field = PyStr(x) /\ Suboptimal(indexes[j])})

-----------------------------------------------------------------------------
(* IndexValidator.validate: specification and properties of the order of its checks *)

PriorityFields == {Absent, PyStr("ghost"), PyStr("vec"), PyStr("f16")}

PriorityTypes == {Absent, PyStr("HNSW"), PyStr("GPU_CAGRA"), PyStr("gpu_cagra"), PyStr("TRIE")}

PriorityMetrics == {Absent, PyStr("L2"), PyStr("HAMMING"), PyStr("COSINE")}

PriorityParams == {NoParams, OneParam("M", PyInt(0)), I_vec_hnsw.params}

\* one index with every combination of field, type, metric and params, over a
\* float_vector and a float16_vector field, below and at the gated minimum
InitPriority ==
    \E field \in PriorityFields, type \in PriorityTypes, metric \in PriorityMetrics,
       params \in PriorityParams, version \in InstalledVersions :
        Start(Document(<<F_id, F_vec, F_f16>>, <<>>),
              <<[field |-> field, type |-> type, metric |-> metric, params |-> params]>>,
              version, "ok")

NextPriority ==
    \/ Construct
    \/ Validate
    \/ \E i \in 1..Len(indexes) : GetIndexParams(i)

SpecPriority == InitPriority /\ [][NextPriority]_vars

\* the check an error of get_index_params comes from, read off its text: one of
\* the checks of IndexValidator.validate, or the builder finding no type to use
ErrorKind(e) ==
    IF ~Raised(e) THEN "none"
    ELSE IF Head(e.msg) = "Index definition missing required 'field'" THEN "missing_field"
    ELSE IF Head(e.msg) = "Index refers to unknown field '" THEN "unknown_field"
    ELSE IF Head(e.msg) = "Field type '" THEN "field_type_unsupported"
    ELSE IF Head(e.msg) = "Index type '" /\ e.msg[3] = "' requires additional support ("
    THEN "index_type_unsupported"
    ELSE IF Head(e.msg) = "Index type '" /\ e.msg[3] = "' is not valid for "
    THEN "index_type_invalid"
    ELSE IF Head(e.msg) \in {"Invalid metric '",
                             "Metric 'COSINE' is not supported for GPU index '"}
    THEN "metric"
    ELSE IF Head(e.msg) = "Index for field '" THEN "type_unresolved"
    ELSE "params"

\* the first check, in the stated order, that the index definition fails against
\* the field types the builder holds
FirstFailingCheck(d) ==
    LET ft == b_field_types[d.field.s]
        typed == Truthy(Get(d.type))
        type == Upper(Get(d.type).s)
        below == TupleLess(installed, MinGatedVersion)
        given == IF d.params.t = "dict" THEN d.params.d ELSE <<>>
    IN
    IF ~Has(d.field) THEN "missing_field"
    ELSE IF d.field.s \notin DOMAIN b_field_types THEN "unknown_field"
    ELSE IF typed /\ ft \in OPTIONAL_TYPE_MIN_VERSIONS /\ below THEN "field_type_unsupported"
    ELSE IF typed /\ type \in OPTIONAL_INDEX_MIN_VERSIONS /\ below
    THEN "index_type_unsupported"
    ELSE IF typed /\ type \notin VALID_INDEX_TYPES(ft, installed) THEN "index_type_invalid"
    ELSE IF Has(d.metric)
            /\ \/ (typed /\ type \in GPU_INDEX_TYPES(installed)
                   /\ Upper(d.metric.s) = "COSINE")
               \/ Upper(d.metric.s) \notin FLOAT_METRICS
    THEN "metric"
    ELSE IF MissingParams(d) # {}
            \/ \E k \in DOMAIN given :
                  type = "HNSW" /\ k \in {"M", "efConstruction"}
                  /\ (given[k].n <= 0 \/ (k = "M" /\ given[k].n > MaxHnswM))
    THEN "params"
    ELSE "none"

\* C18: IndexValidator.validate checks in a fixed order: missing 'field',
\* unknown field, then, when a type is given, unsupported gated field type,
\* unsupported gated index type, membership of the upper-cased type in the valid
\* set of the field's type, then metric, then params.  The error raised is that
\* of the first check that fails, so the unsupported field type goes before
\* every index-type error.
C18_CheckOrder ==
    \A c \in IndexParamsCalls :
        IF FirstFailingCheck(Received(c)) # "none"
        THEN ErrorKind(calls[c].exc) = FirstFailingCheck(Received(c))
        ELSE ErrorKind(calls[c].exc) \in {"none", "type_unresolved"}

\* below the minimum, a GPU_CAGRA index with an invalid metric on the
\* float16_vector field was rejected for its field type
C18_Witness ==
    \E c \in IndexParamsCalls :
        /\ Received(c).field = PyStr("f16")
        /\ Received(c).type = PyStr("GPU_CAGRA")
        /\ Received(c).metric = PyStr("HAMMING")
        /\ installed = <<2, 5, 0>>
        /\ ErrorKind(calls[c].exc) = "field_type_unsupported"

-----------------------------------------------------------------------------
(* the case of index types: specification and properties *)

\* the spellings of the index types given for the dense and the sparse field
CaseIndexes ==
    {[I_vec_hnsw EXCEPT !.type = PyStr(t)] : t \in {"HNSW", "hnsw"}}
    \cup {[Index(PyStr("sp"), PyStr(t)) EXCEPT !.metric = m] :
             t \in {"SPARSE_INVERTED_INDEX", "sparse_inverted_index"},
             m \in {Absent, PyStr("IP"), PyStr("BM25")}}

InitCase ==
    \E ix \in CaseIndexes, fns \in {<<>>, <<Fn_bm25>>}, version \in InstalledVersions :
        Start(Document(<<F_id, F_txt, F_vec, F_sp>>, fns), <<ix>>, version, "ok")

NextCase ==
    \/ Construct
    \/ Validate
    \/ \E i \in 1..Len(indexes) : GetIndexParams(i)

SpecCase == InitCase /\ [][NextCase]_vars

\* the index definition with its type in upper case
UpperCased(index_def) == [index_def EXCEPT !.type = PyStr(Upper(@.s))]

\* C19: index types are case-insensitive and normalized to upper case.
\* Validation and get_index_params give the same outcome whatever the case of
\* the type, the index_type returned is upper case, and the defaults of
\* SPARSE_INVERTED_INDEX are applied for a lower-case spelling as for the
\* upper-case one.
C19_CaseInsensitive ==
    \A c \in IndexParamsCalls :
        LET upper == get_index_params(UpperCased(Received(c)), doc.functions, b_field_types,
                                      b_autoindex, installed)
        IN /\ Raised(calls[c].exc) = Raised(upper.exc)
           /\ ~Raised(calls[c].exc) =>
                 /\ Result(c).index_type = Upper(Received(c).type.s)
                 /\ Result(c) = upper.result
                 /\ Result(c).index_type = "SPARSE_INVERTED_INDEX" =>
                       /\ Result(c).params.t = "dict"
                       /\ "inverted_index_algo" \in DOMAIN Result(c).params.d

-----------------------------------------------------------------------------
(* vector dimensions: specification and properties *)

DimChoices ==
    {Absent, None, PyStr("128"), PyFloat("1.5"), PyInt(-1), PyInt(0), PyInt(1), PyInt(128),
     PyInt(MaxFloatDim), PyInt(MaxFloatDim + 1), PyInt(MaxBinaryDim), PyInt(MaxBinaryDim + 1)}

\* a primary key and one vector field of every vector type with every dim
InitDim ==
    \E type \in VectorTypes, dim \in DimChoices :
        Start(Document(<<F_id, [Field(PyStr("v"), PyStr(type)) EXCEPT !.dim = dim]>>, <<>>),
              <<>>, <<2, 6, 0>>, "ok")

NextDim ==
    \/ Validate
    \/ ValidateSchema

SpecDim == InitDim /\ [][NextDim]_vars

\* the vector field of the document
VectorField == doc.fields[2]

\* the largest dim of a vector type that needs one
DimLimit(type) == IF type = "binary_vector" THEN MaxBinaryDim ELSE MaxFloatDim

\* the dim is a positive integer within the range of the type
DimInRange(field_def) ==
    /\ field_def.dim.t = "int"
    /\ 1 <= field_def.dim.n
    /\ field_def.dim.n <= DimLimit(field_def.type.s)

\* C20: FieldValidator.validate rejects every float_vector, binary_vector,
\* float16_vector, bfloat16_vector and int8_vector field whose dim is missing,
\* not a positive integer, or outside 1..32768 (1..262144 for binary_vector), and
\* accepts the field when dim is inside the range; a sparse_float_vector field
\* needs no dim.
C20_DimChecked ==
    Validated =>
        /\ v_out.status = "returned"
        /\ (ErrorsOf(v_out.messages) # <<>>)
              = (VectorField.type.s # "sparse_float_vector" /\ ~DimInRange(VectorField))


-----------------------------------------------------------------------------
(* optional boolean flags: specification and properties *)

FlagNames == {"nullable", "enable_match", "enable_analyzer"}

FlagValues == {Absent, None, PyBool(TRUE), PyBool(FALSE), PyStr("yes"), PyInt(1)}

\* a primary key and a varchar field with every combination of the three flags
InitFlags ==
    \E nullable \in FlagValues, enable_match \in FlagValues, enable_analyzer \in FlagValues :
        Start(Document(<<F_id, [F_title EXCEPT !.max_length = PyInt(256),
                                               !.nullable = nullable,
                                               !.enable_match = enable_match,
                                               !.enable_analyzer = enable_analyzer]>>,
                       <<>>),
              <<>>, <<2, 6, 0>>, "ok")

NextFlags ==
    \/ Validate
    \/ ValidateSchema

SpecFlags == InitFlags /\ [][NextFlags]_vars

\* the field that carries the flags
FlaggedField == doc.fields[2]

FlagOf(field_def, flag) ==
    CASE flag = "nullable" -> field_def.nullable
      [] flag = "enable_match" -> field_def.enable_match
      [] flag = "enable_analyzer" -> field_def.enable_analyzer

\* the flags present in the definition with a value that is no boolean
NonBooleanFlags(field_def) ==
    {flag \in FlagNames : Has(FlagOf(field_def, flag)) /\ ~IsBool(FlagOf(field_def, flag))}

\* the words of the error that names a flag
FlagErrorWords(flag) ==
    CASE flag = "nullable" -> "': 'nullable' must be a boolean value"
      [] flag = "enable_match" -> "': 'enable_match' must be a boolean value"
      [] flag = "enable_analyzer" -> "': 'enable_analyzer' must be a boolean value"

\* C21: FieldValidator.validate raises an error naming the flag whenever one of
\* nullable, enable_match, enable_analyzer is present with a non-boolean value,
\* and accepts the field when every present flag is a boolean.
C21_BooleanFlags ==
    Validated =>
        /\ v_out.status = "returned"
        /\ IF NonBooleanFlags(FlaggedField) = {}
           THEN ErrorsOf(v_out.messages) = <<>>
           ELSE \E i \in 1..Len(v_out.messages), flag \in NonBooleanFlags(FlaggedField) :
                   /\ v_out.messages[i].severity = "ERROR"
                   /\ Contains(v_out.messages[i].text, <<FlagErrorWords(flag)>>)


-----------------------------------------------------------------------------
(* is_bm25_function_output_field: specification and properties *)

\* a function with the given type keys and the three output keys
FunctionWith(type, function_type, output_field, output_field_names, output_fields) ==
    [Function(type, "txt", "sp") EXCEPT !.function_type = function_type,
                                       !.output_field = output_field,
                                       !.output_field_names = output_field_names,
                                       !.output_fields = output_fields]

\* the spellings of the type: under type, or under function_type
OutputTypeChoices ==
    {<<PyStr("BM25"), Absent>>, <<PyStr("bm25"), Absent>>, <<PyStr("Bm25"), Absent>>,
     <<PyStr("TEXT_EMBEDDING"), Absent>>, <<Absent, PyStr("bm25")>>}

\* the values of output_field, output_field_names, output_fields
OutputKeyChoices ==
    {<<NoNames, NameList(<<"sp">>), NoNames>>,
     <<OneName("sp"), NameList(<<"vec">>), NoNames>>,
     <<OneName(""), NameList(<<"sp">>), NoNames>>,
     <<NoNames, NameList(<<>>), OneName("vec")>>,
     <<NoNames, NoNames, NameList(<<"sp", "vec">>)>>}

OutputNames == {"sp", "vec", "txt"}

InitOutput ==
    \E ty \in OutputTypeChoices, keys \in OutputKeyChoices :
        Start(Document(<<F_id, F_txt, F_vec, F_sp>>,
                       <<FunctionWith(ty[1], ty[2], keys[1], keys[2], keys[3])>>),
              <<>>, <<2, 6, 0>>, "ok")

NextOutput ==
    \/ Construct
    \/ \E field_name \in OutputNames : IsBm25FunctionOutputField(field_name)

SpecOutput == InitOutput /\ [][NextOutput]_vars

\* the logged calls of is_bm25_function_output_field
Bm25OutputCalls == {c \in 1..Len(calls) : calls[c].op = "is_bm25_function_output_field"}

\* the type a function declares, under either key
DeclaredType(func_def) ==
    IF Truthy(Get(func_def.type)) THEN Get(func_def.type)
    ELSE GetOr(func_def.function_type, PyStr(""))

\* the names under the first non-empty of output_field, output_field_names,
\* output_fields
FirstNonEmptyOutput(func_def) ==
    LET keys == <<func_def.output_field, func_def.output_field_names, func_def.output_fields>>
        filled == {k \in 1..3 : NamesTruthy(keys[k])}
    IN IF filled = {} THEN {}
       ELSE Range(keys[CHOOSE k \in filled : \A j \in filled : k <= j].names)

\* C22: is_bm25_function_output_field(name) is true if and only if some declared
\* function whose type normalizes to BM25 ('bm25' and 'Bm25' included) lists
\* name among its output fields, read from the first non-empty of the keys
\* output_field, output_field_names, output_fields.
C22_Bm25OutputField ==
    \A c \in Bm25OutputCalls :
        calls[c].out[1].value
            = \E i \in 1..Len(doc.functions) :
                 /\ NormalizeToken(DeclaredType(doc.functions[i]).s) = "BM25"
                 /\ calls[c].out[1].field_name \in FirstNonEmptyOutput(doc.functions[i])


-----------------------------------------------------------------------------
(* validate_function_index_relationships: specification and properties *)

I_sp_sparse == Index(PyStr("sp"), PyStr("SPARSE_INVERTED_INDEX"))

I_sp_sparse_lower == Index(PyStr("sp"), PyStr("sparse_inverted_index"))

I_sp_null == Index(PyStr("sp"), None)

Fn_embed_vec == Function(PyStr("TEXT_EMBEDDING"), "txt", "vec")

\* a BM25 function with two output fields
Fn_bm25_two == [Fn_bm25 EXCEPT !.output_field_names = NameList(<<"sp", "vec">>)]

RelationIndexPool == {I_sp, I_sp_sparse, I_sp_sparse_lower, I_sp_null, I_vec_hnsw, I_txt_bitmap}

RelationFunctions ==
    {<<>>, <<Fn_bm25>>, <<Fn_bm25_lower>>, <<Fn_embed_vec>>, <<Fn_bm25_two>>,
     <<Fn_bm25, Fn_embed_vec>>}

InitRelation ==
    \E ix \in SeqsOf(RelationIndexPool, 0, MaxIndexes), fns \in RelationFunctions :
        Start(Document(<<F_id, F_txt, F_sp, F_vec>>, fns), ix, <<2, 6, 0>>, "ok")

NextRelation ==
    \/ ValidateFunctionIndexRelationships
    \/ Validate

SpecRelation == InitRelation /\ [][NextRelation]_vars

\* the logged calls of validate_function_index_relationships
RelationCalls ==
    {c \in 1..Len(calls) : calls[c].op = "validate_function_index_relationships"}

\* the positions of the index definitions that reference the field
IndexesOn(field_name) == {j \in 1..Len(indexes) : indexes[j].field = PyStr(field_name)}

\* the index definition is of type SPARSE_INVERTED_INDEX, in any case
IsSparseInverted(index_def) ==
    IsStr(index_def.type) /\ Upper(index_def.type.s) = "SPARSE_INVERTED_INDEX"

FunctionIsBM25(func_def) == NormalizeToken(PyRepr(Get(func_def.type))) = "BM25"

\* the number of messages of the severity that start with the words and name the field
CountAbout(messages, severity, words, field_name) ==
    Cardinality({k \in 1..Len(messages) :
                    /\ messages[k].severity = severity
                    /\ messages[k].text[1] = words
                    /\ messages[k].text[2] = field_name})

\* the number of messages the rule asks for: one per function and output field
\* without an index, one per index that is not SPARSE_INVERTED_INDEX on a BM25 output
ExpectedCount(functions) ==
    LET pairs == {p \in (1..Len(functions)) \X {"sp", "vec"} :
                    p[2] \in Range(functions[p[1]].output_field_names.names)}
        n(p) == IF IndexesOn(p[2]) = {} THEN 1
                ELSE IF FunctionIsBM25(functions[p[1]])
                THEN Cardinality({j \in IndexesOn(p[2]) : ~IsSparseInverted(indexes[j])})
                ELSE 0
        sum[S \in SUBSET pairs] ==
            IF S = {} THEN 0 ELSE LET p == CHOOSE q \in S : TRUE IN n(p) + sum[S \ {p}]
    IN sum[pairs]

\* C23: validate_function_index_relationships returns, for each function and
\* each of its output fields, exactly one WARNING when no index references the
\* field (with the BM25 wording for a BM25 function), one ERROR per index on the
\* field whose type is not SPARSE_INVERTED_INDEX when the function is BM25, and
\* nothing else.
C23_RelationshipMessages ==
    \A c \in RelationCalls :
        /\ ~Raised(calls[c].exc)
        /\ Len(calls[c].out) = ExpectedCount(doc.functions)
        /\ \A i \in 1..Len(doc.functions) :
             \A field_name \in Range(doc.functions[i].output_field_names.names) :
                LET bm25 == FunctionIsBM25(doc.functions[i])
                    warnings == CountAbout(calls[c].out, "WARNING",
                                           IF bm25 THEN "BM25 function output field '"
                                           ELSE "Function output field '", field_name)
                    errors == CountAbout(calls[c].out, "ERROR",
                                         "BM25 function output field '", field_name)
                IN IF IndexesOn(field_name) = {}
                   THEN warnings = 1 /\ errors = 0
                   ELSE /\ warnings = 0
                        /\ errors = IF bm25
                                    THEN Cardinality({j \in IndexesOn(field_name) :
                                                         ~IsSparseInverted(indexes[j])})
                                    ELSE 0


-----------------------------------------------------------------------------
(* uniqueness of field names: specification and properties *)

\* a second definition of the name vec, with another type
F_vec_int == Field(PyStr("vec"), PyStr("int64"))

UniqueFieldPool == {F_id, F_txt, F_vec, F_vec_int, F_sp}

InitUnique ==
    \E fs \in SeqsOf(UniqueFieldPool, 1, MaxFields), version \in InstalledVersions :
        Start(Document(fs, <<>>), <<>>, version, "ok")

NextUnique ==
    \/ Validate
    \/ ValidateSchema

SpecUnique == InitUnique /\ [][NextUnique]_vars

\* two definitions of the document carry the same name
SameNameTwice ==
    \E i, j \in 1..Len(doc.fields) : i < j /\ doc.fields[i].name = doc.fields[j].name

\* C24: SchemaValidator.validate reports an ERROR for a document in which two
\* field definitions carry the same name, so the field-name to type map it
\* returns has exactly one entry per validated field.
C24_UniqueNames ==
    Validated =>
        /\ v_out.status = "returned"
        /\ SameNameTwice => ErrorsOf(v_out.messages) # <<>>
        /\ Cardinality(DOMAIN v_out.field_types) = Len(v_out.fields)


-----------------------------------------------------------------------------
(* the index operations and the declared definitions: properties *)

\* the index definitions as call c left them
IndexesAfter(c) == IF c < Len(calls) THEN calls[c + 1].before ELSE indexes

\* C25: get_index_params, get_create_index_calls and get_milvus_index_params
\* leave the index definitions unchanged: after each call every declared
\* definition has the same type, metric and params as before it.
C25_DefinitionsUnchanged ==
    \A c \in 1..Len(calls) :
        calls[c].op \in {"get_index_params", "get_create_index_calls",
                         "get_milvus_index_params"} =>
            IndexesAfter(c) = calls[c].before


-----------------------------------------------------------------------------
(* build() after the index operations: specification and properties *)

OrderIndexPool == {I_id, I_id_inverted, I_vec_hnsw, I_sp}

InitOrder ==
    \E ix \in SeqsOf(OrderIndexPool, 1, MaxIndexes),
       fns \in {<<>>, <<Fn_bm25>>},
       flag \in {Absent, PyBool(TRUE)} :
        Start([Document(<<F_id, F_txt, F_vec, F_sp>>, fns) EXCEPT !.top["autoindex"] = flag],
              ix, <<2, 6, 0>>, "ok")

NextOrder ==
    \/ Construct
    \/ \E i \in 1..Len(indexes) : GetIndexParams(i)
    \/ GetCreateIndexCalls
    \/ GetMilvusIndexParams
    \/ BuildFields
    \/ Assemble
    \/ Verify
    \/ ValidateIndexes
    \/ BuildReturn

SpecOrder == InitOrder /\ [][NextOrder]_vars

\* build() on a builder freshly constructed for the document succeeds
FreshBuildSucceeds ==
    ~Raised(SchemaBuilder_build(doc, DeclaredIndexes, b_field_types, installed,
                                engine_ok).exc)

\* C26: the outcome of build() does not depend on the index operations that
\* ran before it on the same builder: where build() succeeds on a fresh
\* builder it succeeds after any sequence of get_index_params,
\* get_create_index_calls and get_milvus_index_params, and each of these calls
\* gives the same result when repeated.
C26_BuildAfterIndexOperations ==
    /\ (b_pc \in {"build_raised", "done"} /\ FreshBuildSucceeds) => b_pc = "done"
    /\ \A c1, c2 \in 1..Len(calls) :
          (c1 < c2 /\ calls[c1].op = calls[c2].op /\ calls[c1].idx = calls[c2].idx) =>
              /\ calls[c2].exc = calls[c1].exc
              /\ calls[c2].out = calls[c1].out


-----------------------------------------------------------------------------
(* the validator as the gate of the builder: specification and properties *)

GateFields == <<F_id, F_id2, F_txt, F_vec>>

GateIndexes == <<I_vec_hnsw, I_vec_ivf, I_id>>

\* documents with no, one or two primary fields; the engine accepts what it is given
InitGate ==
    \E fs \in SubLists(GateFields) \ {<<>>},
       ix \in SubLists(GateIndexes),
       flag \in {Absent, PyBool(TRUE), PyStr("yes")} :
        Start([Document(fs, <<>>) EXCEPT !.top["autoindex"] = flag], ix, <<2, 6, 0>>, "ok")

NextGate ==
    \/ Validate
    \/ ConstructWithContext
    \/ BuildFields
    \/ Assemble
    \/ Verify
    \/ ValidateIndexes
    \/ BuildReturn

SpecGate == InitGate /\ [][NextGate]_vars

\* C27: for every document on which SchemaValidator.validate reports no ERROR,
\* constructing SchemaBuilder with the returned context and calling build()
\* does not raise (the engine accepting the schema), in particular not for the
\* number of primary fields.
C27_ValidatorIsGate ==
    (Validated /\ v_out.status = "returned" /\ ErrorsOf(v_out.messages) = <<>>
     /\ BuilderEnded) =>
        /\ b_pc = "done"
        /\ ~Raised(b_exc)


-----------------------------------------------------------------------------
(* the order of the index warnings: specification and properties *)

DeterminismFields == <<F_id, F_vec, F_sp, F_f16>>

DeterminismIndexes == <<I_vec_hnsw, I_sp_sparse>>

InitDeterminism ==
    \E fs \in SubLists(DeterminismFields) \ {<<>>}, ix \in SubLists(DeterminismIndexes) :
        Start(Document(fs, <<>>), ix, <<2, 6, 0>>, "ok")

NextDeterminism ==
    \/ Validate
    \/ ValidateSchema

SpecDeterminism == InitDeterminism /\ [][NextDeterminism]_vars

\* the names of the vector fields of the document without an index, in document order
UnindexedVectorFields ==
    LET unindexed == SelectSeq(doc.fields,
                        LAMBDA f : f.type.s \in VectorTypes /\ IndexesOn(f.name.s) = {})
    IN [i \in 1..Len(unindexed) |-> unindexed[i].name.s]

\* the names of the fields the "has no index defined" warnings are about, in
\* the order of the messages
WarnedFields(messages) ==
    LET warned == SelectSeq(messages,
                     LAMBDA m : m.severity = "WARNING" /\ Len(m.text) = 4
                                /\ m.text[4] = "' has no index defined. ")
    IN [i \in 1..Len(warned) |-> warned[i].text[3]]

\* C28: validation is a function of the document: the WARNINGs for un-indexed
\* vector fields appear in the document order of the fields, whatever the
\* iteration order of the set of field names, so two validations of the same
\* document return the same messages in the same order.
C28_DocumentOrder ==
    Validated =>
        /\ v_out.status = "returned"
        /\ WarnedFields(v_out.messages) = UnindexedVectorFields


-----------------------------------------------------------------------------
(* the output fields of a function: specification and properties *)

\* the values of output_field, output_field_names, output_fields
AgreeKeyChoices ==
    {<<NoNames, NameList(<<"sp">>), NoNames>>,
     <<NoNames, NameList(<<"sp", "vec">>), NoNames>>,
     <<OneName("sp"), NoNames, NoNames>>,
     <<OneName("sp"), NoNames, NameList(<<"vec">>)>>,
     <<NoNames, NameList(<<"sp">>), OneName("vec")>>,
     <<OneName("vec"), NameList(<<"sp">>), NoNames>>,
     <<OneName("sp"), NameList(<<"ghost">>), NoNames>>}

\* one function of type BM25 or TEXT_EMBEDDING, no indexes
InitAgree ==
    \E ty \in {PyStr("BM25"), PyStr("TEXT_EMBEDDING")}, keys \in AgreeKeyChoices :
        Start(Document(<<F_id, F_txt, F_vec, F_sp>>,
                       <<FunctionWith(ty, Absent, keys[1], keys[2], keys[3])>>),
              <<>>, <<2, 6, 0>>, "ok")

NextAgree ==
    \/ Validate
    \/ Construct
    \/ \E field_name \in OutputNames : IsBm25FunctionOutputField(field_name)
    \/ ValidateFunctionIndexRelationships

SpecAgree == InitAgree /\ [][NextAgree]_vars

\* validation has accepted the document, its function included
Accepted == Validated /\ v_out.status = "returned" /\ ErrorsOf(v_out.messages) = <<>>

\* the output fields FunctionValidator.validate checked for existence
CheckedOutputs == Range(validator_output_value(doc.functions[1]).names)

\* C29: for a function definition that FunctionValidator.validate accepts, the
\* output fields that is_bm25_function_output_field and
\* validate_function_index_relationships attribute to the function are exactly
\* the ones the validator checked for existence, also when the definition
\* carries several of the output keys with different values.
C29_OutputFieldsAgree ==
    Accepted =>
        \A c \in 1..Len(calls) :
            /\ calls[c].op = "is_bm25_function_output_field" =>
                  calls[c].out[1].value
                      = (FunctionIsBM25(doc.functions[1])
                         /\ calls[c].out[1].field_name \in CheckedOutputs)
            /\ calls[c].op = "validate_function_index_relationships" =>
                  /\ ~Raised(calls[c].exc)
                  /\ {calls[c].out[k].text[2] : k \in 1..Len(calls[c].out)} = CheckedOutputs


-----------------------------------------------------------------------------
(* function-index messages of validator and builder: specification and properties *)

SameMessagesIndexPool == {I_sp, I_sp_sparse, I_vec_hnsw}

InitSameMessages ==
    \E ix \in SeqsOf(SameMessagesIndexPool, 0, MaxIndexes),
       fns \in {<<>>, <<Fn_bm25>>, <<Fn_embed_vec>>, <<Fn_bm25, Fn_embed_vec>>} :
        Start(Document(<<F_id, F_txt, F_sp, F_vec>>, fns), ix, <<2, 6, 0>>, "ok")

NextSameMessages ==
    \/ Validate
    \/ Construct
    \/ GetFunctionIndexWarnings

SpecSameMessages == InitSameMessages /\ [][NextSameMessages]_vars

\* the messages of the function-index relationship stage among those of validate()
RelationshipStage(messages) ==
    SelectSeq(messages,
              LAMBDA m : m.text[1] \in {"BM25 function output field '",
                                        "Function output field '"})

\* an index definition without type on the output field of a BM25 function
TypelessOnBm25Output ==
    \E j \in 1..Len(indexes) :
        /\ ~Has(indexes[j].type)
        /\ Get(indexes[j].field).t = "str"
        /\ is_bm25_function_output_field(doc.functions, Get(indexes[j].field).s)

\* C30: for the same document SchemaValidator.validate appends the same
\* function-index relationship messages as SchemaBuilder.get_function_index_warnings
\* returns, and an index definition without type on the output field of a BM25
\* function produces no ERROR among them in either.
C30_SameRelationshipMessages ==
    \A c \in 1..Len(calls) :
        (calls[c].op = "get_function_index_warnings" /\ v_out.status = "returned") =>
            LET stage == RelationshipStage(v_out.messages)
            IN /\ ~Raised(calls[c].exc)
               /\ calls[c].out = [k \in 1..Len(stage) |-> as_prefixed(stage[k])]
               /\ TypelessOnBm25Output =>
                     (/\ ErrorsOf(stage) = <<>>
                      /\ \A k \in 1..Len(calls[c].out) : calls[c].out[k][1] # "ERROR")

====
